---- MODULE Spec2Model ----
(***************************************************************************)
(* Lead-Miner: the enrichment and scoring pipeline.                        *)
(*                                                                         *)
(* Strings are TLA+ strings; a nullable value is <<>> (null/undefined) or  *)
(* <<v>> (present).  Each component has its own specification:             *)
(*   SpecTrust       quickVerifyWebsite / deepVerifyWebsite                *)
(*   SpecConfidence  scoreEmailConfidence                                  *)
(*   SpecEmail       discoverEmails / getBestEmail                         *)
(*   SpecSocial      verifySocialProfiles                                  *)
(*   SpecScore       computeAutomationNeedScoreDetailed                    *)
(***************************************************************************)
EXTENDS Integers, Sequences, FiniteSets, TLC

VARIABLES
    \* websiteVerification.ts
    tpc,          \* position of the quickVerifyWebsite / deepVerifyWebsite call
    tUrl,         \* the argument url: <<>> for null, <<s>> for a string
    tQuick,       \* deepVerifyWebsite: quickCheck, <<>> before it is computed
    tVerdict,     \* the returned WebsiteVerificationResult, <<>> before return
    tFetchCalls,  \* number of fetch(..., {method: "HEAD"}) calls made
    tPath,        \* which return statement produced tVerdict
    \* emailDiscovery.ts, scoreEmailConfidence
    cArgs,        \* [email, validationResult, domain]
    cRet,         \* source -> <<>> or <<score>>
    \* emailDiscovery.ts, discoverEmails
    epc, eName, eWebsite, eAll, eSources, ePatterns, eResult, eBest,
    eMailtos,     \* the addresses the scrape took from mailto: links, lowered
    eHasMX,       \* what checkMXRecords(domain) returned, <<>> before it has
    eHigh,        \* highConfidenceEmails of runPlacesSearch
    \* socialVerifier.ts
    spc, sName, sWebsite, sWebsiteProfiles, sProfiles, sProbes, sUrls, sIdx,
    sResult,
    \* scoring.ts
    apc, aInput, aOut, aReasons, aAgain,
    \* websiteIntelligence.ts
    ipc, iWebsite, iFindings, iResult, iFetchCalls, iPath,
    \* googlePlaces-free-enrichment.ts
    rpc, rConfig, rLoop, rCand, rTotals, rFetches, rUpserted, rLast

trustVars == <<tpc, tUrl, tQuick, tVerdict, tFetchCalls, tPath>>
confVars == <<cArgs, cRet>>
emailVars == <<epc, eName, eWebsite, eAll, eSources, ePatterns, eResult, eBest,
               eMailtos, eHasMX, eHigh>>
socialVars == <<spc, sName, sWebsite, sWebsiteProfiles, sProfiles, sProbes,
                sUrls, sIdx, sResult>>
scoreVars == <<apc, aInput, aOut, aReasons, aAgain>>
intelVars == <<ipc, iWebsite, iFindings, iResult, iFetchCalls, iPath>>
runVars == <<rpc, rConfig, rLoop, rCand, rTotals, rFetches, rUpserted, rLast>>
vars == <<trustVars, confVars, emailVars, socialVars, scoreVars, intelVars,
          runVars>>

Null == <<>>
Some(v) == <<v>>
IsNull(o) == o = <<>>
Val(o) == o[1]

(***************************************************************************)
(* JavaScript string primitives                                            *)
(***************************************************************************)
Min(a, b) == IF a < b THEN a ELSE b
Max(a, b) == IF a > b THEN a ELSE b

CharAt(s, i) == IF i >= 1 /\ i <= Len(s) THEN SubSeq(s, i, i) ELSE ""

UpperChars == {"A","B","C","D","E","F","G","H","I","J","K","L","M",
               "N","O","P","Q","R","S","T","U","V","W","X","Y","Z"}
LowerChars == {"a","b","c","d","e","f","g","h","i","j","k","l","m",
               "n","o","p","q","r","s","t","u","v","w","x","y","z"}
DigitChars == {"0","1","2","3","4","5","6","7","8","9"}
SpaceChars == {" ", "\t"}

LowerChar(c) ==
    CASE c = "A" -> "a" [] c = "B" -> "b" [] c = "C" -> "c" [] c = "D" -> "d"
      [] c = "E" -> "e" [] c = "F" -> "f" [] c = "G" -> "g" [] c = "H" -> "h"
      [] c = "I" -> "i" [] c = "J" -> "j" [] c = "K" -> "k" [] c = "L" -> "l"
      [] c = "M" -> "m" [] c = "N" -> "n" [] c = "O" -> "o" [] c = "P" -> "p"
      [] c = "Q" -> "q" [] c = "R" -> "r" [] c = "S" -> "s" [] c = "T" -> "t"
      [] c = "U" -> "u" [] c = "V" -> "v" [] c = "W" -> "w" [] c = "X" -> "x"
      [] c = "Y" -> "y" [] c = "Z" -> "z" [] OTHER -> c

\* String.prototype.toLowerCase
RECURSIVE ToLowerCase(_)
ToLowerCase(s) ==
    IF Len(s) = 0 THEN ""
    ELSE IF Len(s) = 1 THEN LowerChar(s)
    ELSE LET h == Len(s) \div 2
         IN ToLowerCase(SubSeq(s, 1, h)) \o ToLowerCase(SubSeq(s, h + 1, Len(s)))

UpperChar(c) ==
    IF c \in LowerChars
    THEN CHOOSE u \in UpperChars : LowerChar(u) = c
    ELSE c

\* String.prototype.toUpperCase
RECURSIVE ToUpperCase(_)
ToUpperCase(s) ==
    IF Len(s) = 0 THEN ""
    ELSE IF Len(s) = 1 THEN UpperChar(s)
    ELSE LET h == Len(s) \div 2
         IN ToUpperCase(SubSeq(s, 1, h)) \o ToUpperCase(SubSeq(s, h + 1, Len(s)))

\* String.prototype.startsWith / endsWith / includes
StartsWith(s, p) == Len(p) <= Len(s) /\ SubSeq(s, 1, Len(p)) = p
EndsWith(s, p) == Len(p) <= Len(s) /\ SubSeq(s, Len(s) - Len(p) + 1, Len(s)) = p
Includes(s, p) ==
    \E i \in 1..(Len(s) - Len(p) + 1) : SubSeq(s, i, i + Len(p) - 1) = p

\* index of the first occurrence of p in s at or after from, 0 if none
IndexFrom(s, p, from) ==
    LET hits == {i \in from..(Len(s) - Len(p) + 1) : SubSeq(s, i, i + Len(p) - 1) = p}
    IN IF hits = {} THEN 0 ELSE CHOOSE i \in hits : \A j \in hits : i <= j

\* String.prototype.trim
RECURSIVE TrimStart(_)
TrimStart(s) ==
    IF Len(s) > 0 /\ CharAt(s, 1) \in SpaceChars
    THEN TrimStart(SubSeq(s, 2, Len(s)))
    ELSE s
RECURSIVE TrimEnd(_)
TrimEnd(s) ==
    IF Len(s) > 0 /\ CharAt(s, Len(s)) \in SpaceChars
    THEN TrimEnd(SubSeq(s, 1, Len(s) - 1))
    ELSE s
Trim(s) == TrimEnd(TrimStart(s))

\* number of occurrences of the one-character string c in s
CountChar(s, c) == Cardinality({i \in 1..Len(s) : CharAt(s, i) = c})

\* s.repeat(n)
RECURSIVE Repeat(_, _)
Repeat(s, n) ==
    IF n <= 0 THEN ""
    ELSE IF n = 1 THEN s
    ELSE LET h == n \div 2 IN Repeat(s, h) \o Repeat(s, n - h)

\* Array.prototype.includes / some, on sequences
InSeq(x, q) == \E i \in 1..Len(q) : q[i] = x
\* Array.from(new Set(q)): first occurrences, in order
Dedupe(q) ==
    LET first == {i \in 1..Len(q) : \A j \in 1..(i - 1) : q[j] # q[i]}
    IN [r \in 1..Cardinality(first) |->
           q[CHOOSE i \in first : Cardinality({j \in first : j < i}) = r - 1]]

(***************************************************************************)
(* new URL(s).hostname for the inputs of this model: an "http:" or         *)
(* "https:" scheme followed by "//", an authority without userinfo or port *)
(* and an optional path.  Leading and trailing spaces are stripped, an     *)
(* input without such a scheme, with an empty host or with a space in the  *)
(* host does not parse (<<>>), and the host is lower-cased.                *)
(***************************************************************************)
UrlHostAfter(low, after) ==
    IF after = 0 THEN Null
    ELSE LET slash == IndexFrom(low, "/", after)
             host == SubSeq(low, after, IF slash = 0 THEN Len(low) ELSE slash - 1)
         IN IF host = "" \/ Includes(host, " ") THEN Null ELSE Some(host)
UrlHostOfLowered(low) ==
    UrlHostAfter(low, IF StartsWith(low, "http://") THEN 8
                      ELSE IF StartsWith(low, "https://") THEN 9
                      ELSE 0)
UrlHostname(raw) == UrlHostOfLowered(ToLowerCase(Trim(raw)))

(***************************************************************************)
(* websiteVerification.ts                                                  *)
(***************************************************************************)
SPAM_DOMAINS == <<"bit.ly", "tinyurl.com", "goo.gl", "ow.ly", "short.link",
                  "spam-domain.com">>

SUSPICIOUS_KEYWORDS == <<"casino", "viagra", "porn", "xxx", "loan", "crypto",
                         "bitcoin", "pharma", "click here", "buy now",
                         "limited time">>

suspiciousTLDs == <<".tk", ".ml", ".ga", ".cf", ".gq", ".xyz", ".top", ".win">>

\* the URL handed to new URL() and to fetch()
withScheme(url) == IF StartsWith(url, "http") THEN url ELSE "https://" \o url

extractDomain(url) ==
    LET h == UrlHostname(withScheme(url))
    IN IF IsNull(h) THEN "" ELSE ToLowerCase(Val(h))

isSpamDomainExact(domain) == \E i \in 1..Len(SPAM_DOMAINS) : domain = SPAM_DOMAINS[i]
isSpamDomain(domain) ==
    \E i \in 1..Len(SPAM_DOMAINS) : Includes(domain, SPAM_DOMAINS[i])

hasSuspiciousKeywords(text) ==
    LET lower == ToLowerCase(text)
    IN \E i \in 1..Len(SUSPICIOUS_KEYWORDS) : Includes(lower, SUSPICIOUS_KEYWORDS[i])

\* /^\d{1,3}\.\d{1,3}\.\d{1,3}\.\d{1,3}/.test(domain)
DigitsAt(s, i, n) ==
    i + n - 1 <= Len(s) /\ \A k \in i..(i + n - 1) : CharAt(s, k) \in DigitChars
DotAt(s, i) == i <= Len(s) /\ CharAt(s, i) = "."
looksLikeIPv4(domain) ==
    \E a, b, c, d \in 1..3 :
        /\ DigitsAt(domain, 1, a) /\ DotAt(domain, 1 + a)
        /\ DigitsAt(domain, 2 + a, b) /\ DotAt(domain, 2 + a + b)
        /\ DigitsAt(domain, 3 + a + b, c) /\ DotAt(domain, 3 + a + b + c)
        /\ DigitsAt(domain, 4 + a + b + c, d)

\* Math.max(0, Math.min(100, trustScore))
normalizeTrust(n) == Max(0, Min(100, n))

\* the verdict literal built from a score: isValid, isLikelySpam, isSuspicious
thresholdVerdictLoose(score, flags, details) ==
    [isValid |-> score > 50, isLikelySpam |-> score < 30,
     isSuspicious |-> score < 50, flags |-> flags, trustScore |-> score,
     details |-> details]
thresholdVerdict(score, flags, details) ==
    [isValid |-> score >= 50, isLikelySpam |-> score < 30,
     isSuspicious |-> score < 50, flags |-> flags, trustScore |-> score,
     details |-> details]

noWebsiteVerdictSpam ==
    [isValid |-> TRUE, isLikelySpam |-> FALSE, isSuspicious |-> FALSE,
     flags |-> <<"No website provided">>, trustScore |-> 50, details |-> Null]
noWebsiteVerdict ==
    [isValid |-> FALSE, isLikelySpam |-> FALSE, isSuspicious |-> FALSE,
     flags |-> <<"No website provided">>, trustScore |-> 0, details |-> Null]

invalidUrlVerdict ==
    [isValid |-> FALSE, isLikelySpam |-> FALSE, isSuspicious |-> TRUE,
     flags |-> <<"Invalid URL format">>, trustScore |-> 0, details |-> Null]

Flag(cond, text) == IF cond THEN <<text>> ELSE <<>>
Pen(cond, n) == IF cond THEN n ELSE 0

\* the penalties of a parseable URL, in evaluation order: <<condition, flag,
\* points>>; the first definition has no length check
quickChecksNoLength(cleanUrl, domain) ==
    << <<isSpamDomain(domain), "Known spam/redirect domain", 80>>,
       <<\E i \in 1..Len(suspiciousTLDs) : EndsWith(domain, suspiciousTLDs[i]),
         "Suspicious TLD", 30>>,
       <<looksLikeIPv4(domain), "IP address instead of domain", 50>>,
       <<CountChar(domain, ".") + 1 > 4, "Excessive subdomains", 20>>,
       <<hasSuspiciousKeywords(cleanUrl), "Contains suspicious keywords", 40>> >>
quickChecks(cleanUrl, domain) ==
    << <<isSpamDomain(domain), "Known spam/redirect domain", 80>>,
       <<\E i \in 1..Len(suspiciousTLDs) : EndsWith(domain, suspiciousTLDs[i]),
         "Suspicious TLD", 30>>,
       <<looksLikeIPv4(domain), "IP address instead of domain", 50>>,
       <<CountChar(domain, ".") + 1 > 4, "Excessive subdomains", 20>>,
       <<hasSuspiciousKeywords(cleanUrl), "Contains suspicious keywords", 40>>,
       <<Len(cleanUrl) > 200, "Unusually long URL", 15>> >>

RECURSIVE FlagsOf(_)
FlagsOf(checks) ==
    IF Len(checks) = 0 THEN <<>>
    ELSE Flag(Head(checks)[1], Head(checks)[2]) \o FlagsOf(Tail(checks))
RECURSIVE PenaltyOf(_)
PenaltyOf(checks) ==
    IF Len(checks) = 0 THEN 0
    ELSE Pen(Head(checks)[1], Head(checks)[3]) + PenaltyOf(Tail(checks))

quickVerifyWebsite(url) ==
    IF IsNull(url) \/ Val(url) = "" \/ Trim(Val(url)) = "" THEN noWebsiteVerdict
    ELSE LET cleanUrl == Trim(Val(url))
             domain == extractDomain(cleanUrl)
         IN IF domain = "" THEN invalidUrlVerdict
            ELSE LET checks == quickChecks(cleanUrl, domain)
                 IN thresholdVerdict(normalizeTrust(100 - PenaltyOf(checks)),
                                     FlagsOf(checks), Null)

\* deepVerifyWebsite, the response branch: flags and score after the three checks
deepResponseVerdict(url, quick, status, finalUrl) ==
    LET hasValidSSL == StartsWith(finalUrl, "https://")
        checks ==
            << <<status = 404, "Website not found (404)", 50>>,
               <<status # 404 /\ status >= 400, "HTTP error", 30>>,
               <<~hasValidSSL, "No HTTPS/SSL", 20>>,
               <<finalUrl # url /\ ~StartsWith(finalUrl, url), "Suspicious redirect", 25>> >>
    IN thresholdVerdict(normalizeTrust(quick.trustScore - PenaltyOf(checks)),
                        quick.flags \o FlagsOf(checks),
                        Some([hasValidSSL |-> hasValidSSL, statusCode |-> status,
                              finalUrl |-> finalUrl, redirectCount |-> 0]))

\* deepVerifyWebsite, the catch branch: no clamp, fixed flags
deepCatchScore(quick, isAbort) ==
    quick.trustScore - (IF isAbort THEN 20 ELSE 15)
deepCatchVerdict(quick, isAbort) ==
    LET score == deepCatchScore(quick, isAbort)
    IN [isValid |-> score >= 50, isLikelySpam |-> FALSE, isSuspicious |-> TRUE,
        flags |-> Append(quick.flags,
                         IF isAbort THEN "Request timeout" ELSE "Fetch error"),
        trustScore |-> score, details |-> Null]

(***************************************************************************)
(* Inputs of the trust classifier                                          *)
(***************************************************************************)
TrustSchemes == {"http://", "https://", "", "http"}
TrustHosts == {"example.com", "bit.ly", "rabbit.ly.evil.tk", "Shop.XYZ",
               "192.168.1.1", "a.b.c.d.example.com", "1.2.3.4.goo.gl.x.tk",
               "my site.com"}
TrustPaths == {"", "/xyz", "/Buy Now"}
\* lengths a URL is padded to with "a": none, the long-URL limit, one more
TrustPadTo == {0, 200, 201}
TrustWraps == {"", " "}

PadTo(s, n) == s \o Repeat("a", n - Len(s))

TrustStrings ==
    {w \o PadTo(sc \o h \o p, n) \o w :
        sc \in TrustSchemes, h \in TrustHosts, p \in TrustPaths,
        n \in TrustPadTo, w \in TrustWraps}
    \cup {"", "   ", "http://", "https://"}

TrustInputs == {Null} \cup {Some(u) : u \in TrustStrings}

HeadStatuses == {200, 403, 404, 500}
\* response.url: the requested URL, with a trailing slash, or another site
FinalUrls(url) ==
    {Trim(withScheme(url)), Trim(withScheme(url)) \o "/",
     "https://www.elsewhere.example/", "http://www.elsewhere.example/"}

\* fetch() rejects with a TypeError before any request when the URL does not parse
fetchUrlParses(url) == ~IsNull(UrlHostname(withScheme(url)))

(***************************************************************************)
(* Idle values of the components                                           *)
(***************************************************************************)
TrustIdle ==
    /\ tpc = "idle" /\ tUrl = Null /\ tQuick = Null /\ tVerdict = Null
    /\ tFetchCalls = 0 /\ tPath = "none"
ConfIdle == cArgs = Null /\ cRet = Null
EmailIdle ==
    /\ epc = "idle" /\ eName = "" /\ eWebsite = "" /\ eAll = <<>>
    /\ eSources = <<>> /\ ePatterns = <<>> /\ eResult = Null /\ eBest = Null
    /\ eMailtos = <<>> /\ eHasMX = Null /\ eHigh = <<>>
SocialIdle ==
    /\ spc = "idle" /\ sName = "" /\ sWebsite = Null /\ sWebsiteProfiles = <<>>
    /\ sProfiles = <<>> /\ sProbes = <<>> /\ sUrls = <<>> /\ sIdx = 0
    /\ sResult = Null
ScoreIdle ==
    apc = "idle" /\ aInput = Null /\ aOut = Null /\ aReasons = <<>> /\ aAgain = Null
IntelIdle ==
    /\ ipc = "idle" /\ iWebsite = "" /\ iFindings = <<>> /\ iResult = Null
    /\ iFetchCalls = 0 /\ iPath = "none"
RunIdle ==
    /\ rpc = "idle" /\ rConfig = Null /\ rLoop = Null /\ rCand = Null
    /\ rTotals = Null /\ rFetches = <<>> /\ rUpserted = Null /\ rLast = Null

(***************************************************************************)
(* SpecTrust: one call of quickVerifyWebsite or deepVerifyWebsite          *)
(***************************************************************************)
InitTrust ==
    /\ tpc = "start"
    /\ tUrl \in TrustInputs
    /\ tQuick = Null /\ tVerdict = Null /\ tFetchCalls = 0 /\ tPath = "none"
    /\ ConfIdle /\ EmailIdle /\ SocialIdle /\ ScoreIdle /\ IntelIdle /\ RunIdle

otherThanTrust ==
    <<confVars, emailVars, socialVars, scoreVars, intelVars, runVars>>

QuickVerifyWebsite ==
    /\ tpc = "start"
    /\ tVerdict' = Some(quickVerifyWebsite(tUrl))
    /\ tpc' = "quickDone"
    /\ tPath' = "quick"
    /\ UNCHANGED <<tUrl, tQuick, tFetchCalls, otherThanTrust>>

\* deepVerifyWebsite(url: string): quickCheck.isLikelySpam, return quickCheck
DeepVerifyShortCircuit ==
    /\ tpc = "start" /\ ~IsNull(tUrl)
    /\ LET quickCheck == quickVerifyWebsite(tUrl)
       IN /\ quickCheck.isLikelySpam
          /\ tQuick' = Some(quickCheck)
          /\ tVerdict' = Some(quickCheck)
    /\ tpc' = "deepDone"
    /\ tPath' = "shortCircuit"
    /\ UNCHANGED <<tUrl, tFetchCalls, otherThanTrust>>

\* DeepVerifyFetch without the isLikelySpam test
DeepVerifyFetchAlways ==
    /\ tpc = "start" /\ ~IsNull(tUrl)
    /\ tQuick' = Some(quickVerifyWebsite(tUrl))
    /\ tFetchCalls' = tFetchCalls + 1
    /\ tpc' = "awaitingHead"
    /\ UNCHANGED <<tUrl, tVerdict, tPath, otherThanTrust>>

\* deepVerifyWebsite: the quick check passed, await fetch(url, {method: "HEAD"})
DeepVerifyFetch ==
    /\ tpc = "start" /\ ~IsNull(tUrl)
    /\ LET quickCheck == quickVerifyWebsite(tUrl)
       IN /\ ~quickCheck.isLikelySpam
          /\ tQuick' = Some(quickCheck)
    /\ tFetchCalls' = tFetchCalls + 1
    /\ tpc' = "awaitingHead"
    /\ UNCHANGED <<tUrl, tVerdict, tPath, otherThanTrust>>

DeepVerifyResponse ==
    /\ tpc = "awaitingHead" /\ fetchUrlParses(Val(tUrl))
    /\ \E status \in HeadStatuses, finalUrl \in FinalUrls(Val(tUrl)) :
          tVerdict' = Some(deepResponseVerdict(Val(tUrl), Val(tQuick), status, finalUrl))
    /\ tpc' = "deepDone"
    /\ tPath' = "response"
    /\ UNCHANGED <<tUrl, tQuick, tFetchCalls, otherThanTrust>>

\* the AbortController fired: error.name === "AbortError"
DeepVerifyTimeout ==
    /\ tpc = "awaitingHead" /\ fetchUrlParses(Val(tUrl))
    /\ tVerdict' = Some(deepCatchVerdict(Val(tQuick), TRUE))
    /\ tpc' = "deepDone"
    /\ tPath' = "timeout"
    /\ UNCHANGED <<tUrl, tQuick, tFetchCalls, otherThanTrust>>

\* any other rejection of fetch (network error, unparseable URL)
DeepVerifyFetchError ==
    /\ tpc = "awaitingHead"
    /\ tVerdict' = Some(deepCatchVerdict(Val(tQuick), FALSE))
    /\ tpc' = "deepDone"
    /\ tPath' = "fetchError"
    /\ UNCHANGED <<tUrl, tQuick, tFetchCalls, otherThanTrust>>

NextTrust ==
    \/ QuickVerifyWebsite
    \/ DeepVerifyShortCircuit
    \/ DeepVerifyFetch
    \/ DeepVerifyResponse
    \/ DeepVerifyTimeout
    \/ DeepVerifyFetchError

SpecTrust == InitTrust /\ [][NextTrust]_vars

(***************************************************************************)
(* Claims about the trust classifier                                       *)
(***************************************************************************)
\* the input is a string that is not blank and that new URL() parses
TrustParseable ==
    /\ ~IsNull(tUrl)
    /\ Trim(Val(tUrl)) # ""
    /\ ~IsNull(UrlHostname(withScheme(Trim(Val(tUrl)))))
TrustBlank == IsNull(tUrl) \/ Trim(Val(tUrl)) = ""

ThreeEquivalences(v) ==
    /\ v.isValid <=> v.trustScore >= 50
    /\ v.isLikelySpam <=> v.trustScore < 30
    /\ v.isSuspicious <=> v.trustScore < 50

\* C1 as stated: for every input (null, empty, unparseable or parseable) the
\* verdict of quickVerifyWebsite has trustScore in 0..100 and satisfies all
\* three threshold equivalences.
C1_AllInputsEquivalences ==
    tpc = "quickDone" =>
        /\ Val(tVerdict).trustScore \in 0..100
        /\ ThreeEquivalences(Val(tVerdict))

\* C1 amended: for every input trustScore is in 0..100 and isValid <=>
\* trustScore >= 50; for every parseable URL all three equivalences hold; a
\* null, blank or unparseable input has score 0 with isLikelySpam = FALSE, and
\* isSuspicious = FALSE when null or blank, TRUE when unparseable.
C1_QuickVerdictThresholds ==
    tpc = "quickDone" =>
        LET v == Val(tVerdict)
        IN /\ v.trustScore \in 0..100
           /\ v.isValid <=> v.trustScore >= 50
           /\ TrustParseable => ThreeEquivalences(v)
           /\ ~TrustParseable =>
                 /\ v.trustScore = 0
                 /\ ~v.isLikelySpam
                 /\ v.isSuspicious <=> ~TrustBlank

\* a parseable URL scored exactly at the validity threshold
C1_Witness ==
    /\ tpc = "quickDone" /\ TrustParseable
    /\ Val(tVerdict).trustScore = 50 /\ Val(tVerdict).isValid

\* C2: quickVerifyWebsite(null), quickVerifyWebsite("") and a whitespace-only
\* string return trustScore 0 and isValid = FALSE.
C2_NoWebsiteScoresZero ==
    (tpc = "quickDone" /\ TrustBlank) =>
        Val(tVerdict).trustScore = 0 /\ ~Val(tVerdict).isValid

C2_Witness ==
    /\ tpc = "quickDone" /\ tUrl = Some("   ")
    /\ Val(tVerdict).flags = <<"No website provided">>

\* C3: a parseable URL whose hostname contains a known spam/shortener domain
\* is flagged "Known spam/redirect domain" and scores at most 20.
C3_SpamDomainFlagged ==
    (/\ tpc = "quickDone" /\ TrustParseable
     /\ \E i \in 1..Len(SPAM_DOMAINS) :
           Includes(Val(UrlHostname(withScheme(Trim(Val(tUrl))))), SPAM_DOMAINS[i]))
    => /\ InSeq("Known spam/redirect domain", Val(tVerdict).flags)
       /\ Val(tVerdict).trustScore <= 20

\* a spam domain embedded in a longer hostname
C3_Witness ==
    /\ tpc = "quickDone" /\ tUrl = Some("https://rabbit.ly.evil.tk/xyz")
    /\ InSeq("Known spam/redirect domain", Val(tVerdict).flags)

\* C4: deepVerifyWebsite returns a trustScore in 0..100 on every path.
C4_DeepScoreInRange ==
    tpc = "deepDone" => Val(tVerdict).trustScore \in 0..100

\* C5: deepVerifyWebsite makes no HEAD fetch and returns the quick verdict
\* unchanged when the quick check says likely spam; otherwise it makes exactly
\* one HEAD fetch.
C5_OneHeadRequest ==
    /\ tFetchCalls <= 1
    /\ tpc = "deepDone" =>
          IF quickVerifyWebsite(tUrl).isLikelySpam
          THEN tFetchCalls = 0 /\ tVerdict = Some(quickVerifyWebsite(tUrl))
          ELSE tFetchCalls = 1

C5_Witness ==
    /\ tpc = "deepDone" /\ tPath = "shortCircuit" /\ tFetchCalls = 0
    /\ Val(tVerdict).isLikelySpam

(***************************************************************************)
(* emailDiscovery.ts                                                       *)
(***************************************************************************)
EMAIL_PATTERNS == <<"info", "contact", "sales", "hello", "support", "admin",
                    "office", "inquiries", "team", "mail">>

\* extractDomain of emailDiscovery.ts: hostname.replace(/^www\./, ""), or null
stripWww(hostname) ==
    IF IsNull(hostname) THEN Null
    ELSE IF StartsWith(Val(hostname), "www.")
         THEN Some(SubSeq(Val(hostname), 5, Len(Val(hostname))))
         ELSE hostname
extractEmailDomain(website) == stripWww(UrlHostname(withScheme(website)))

\* s.replace(/[^a-z0-9\s]/g, "")
RECURSIVE KeepAlnumSpace(_)
KeepAlnumSpace(s) ==
    IF Len(s) = 0 THEN ""
    ELSE IF Len(s) = 1
         THEN IF s \in LowerChars \cup DigitChars \cup SpaceChars THEN s ELSE ""
    ELSE LET h == Len(s) \div 2
         IN KeepAlnumSpace(SubSeq(s, 1, h)) \o KeepAlnumSpace(SubSeq(s, h + 1, Len(s)))

\* s.split(/\s+/)[0]
FirstWord(s) ==
    LET spaces == {i \in 1..Len(s) : CharAt(s, i) \in SpaceChars}
    IN IF spaces = {} THEN s
       ELSE SubSeq(s, 1, (CHOOSE i \in spaces : \A j \in spaces : i <= j) - 1)

cleanFirstWord(businessName) ==
    FirstWord(Trim(KeepAlnumSpace(ToLowerCase(businessName))))

\* the patterns for a domain and a cleaned first word
patternsFor(domain, cleanName) ==
    LET common == [i \in 1..Len(EMAIL_PATTERNS) |->
                      EMAIL_PATTERNS[i] \o "@" \o domain]
        named == IF cleanName # "" /\ Len(cleanName) > 2
                 THEN <<cleanName \o "@" \o domain,
                        "contact@" \o cleanName \o ".com">>
                 ELSE <<>>
        industry == <<"estimate@" \o domain, "quote@" \o domain,
                      "service@" \o domain, "booking@" \o domain,
                      "appointments@" \o domain>>
    IN Dedupe(common \o named \o industry)
\* !domain: null or the empty string
noDomain(d) == IF IsNull(d) THEN TRUE ELSE Val(d) = ""
patternsOrNone(d, businessName) ==
    IF noDomain(d) THEN <<>> ELSE patternsFor(Val(d), cleanFirstWord(businessName))
generateEmailPatterns(businessName, website) ==
    patternsOrNone(extractEmailDomain(website), businessName)

\* /^[a-zA-Z0-9._%+-]+@[a-zA-Z0-9.-]+\.[a-zA-Z]{2,}$/
AlnumChars == LowerChars \cup UpperChars \cup DigitChars
AllIn(s, from, to, chars) == \A k \in from..to : CharAt(s, k) \in chars
isValidEmailFormat(email) ==
    \E at \in 2..Len(email) :
        /\ CharAt(email, at) = "@"
        /\ AllIn(email, 1, at - 1, AlnumChars \cup {".", "_", "%", "+", "-"})
        /\ \E dot \in (at + 2)..(Len(email) - 2) :
              /\ CharAt(email, dot) = "."
              /\ AllIn(email, at + 1, dot - 1, AlnumChars \cup {".", "-"})
              /\ AllIn(email, dot + 1, Len(email), LowerChars \cup UpperChars)

\* the filter callback of scrapeEmailsFromWebsite
junkMarkers == <<"example.com", "test.com", "sample.com", "domain.com",
                 "yoursite.com", "yourdomain.com", "noreply", "no-reply",
                 "mailer-daemon", "postmaster", ".png", ".jpg">>
notJunk(email) ==
    LET lower == ToLowerCase(email)
    IN /\ \A i \in 1..Len(junkMarkers) : ~Includes(lower, junkMarkers[i])
       /\ ~EndsWith(lower, ".gif")

RECURSIVE FilterNotJunk(_)
FilterNotJunk(q) ==
    IF Len(q) = 0 THEN <<>>
    ELSE (IF notJunk(Head(q)) THEN <<Head(q)>> ELSE <<>>) \o FilterNotJunk(Tail(q))

\* scrapeEmailsFromWebsite on a page: page.ok is response.ok, page.matches the
\* matches of emailRegex in the HTML, page.mailtos those of mailtoRegex
scrapeEmailsFromWebsite(page) ==
    IF ~page.ok THEN <<>>
    ELSE Dedupe(FilterNotJunk(page.matches) \o page.mailtos)

\* the source bonus with the mailto tag misspelt
sourceBonusTypo(source) ==
    IF source = "mailto" THEN 30
    ELSE IF source = "scraped-html" THEN 20
    ELSE IF source = "pattern-common" THEN 10
    ELSE 0
sourceBonus(source) ==
    IF source = "scraped-mailto" THEN 30
    ELSE IF source = "scraped-html" THEN 20
    ELSE IF source = "pattern-common" THEN 10
    ELSE 0

\* email.split("@")[0]
LocalPart(email) ==
    LET ats == {i \in 1..Len(email) : CharAt(email, i) = "@"}
    IN IF ats = {} THEN email
       ELSE SubSeq(email, 1, (CHOOSE i \in ats : \A j \in ats : i <= j) - 1)

\* the same from a base of 30
scoreEmailConfidenceLowBase(email, source, validationResult, domain) ==
    LET prefix == ToLowerCase(LocalPart(email))
        score ==
            30
            + sourceBonus(source)
            + (IF validationResult = "valid" THEN 20
               ELSE IF validationResult = "invalid" THEN -40 ELSE 0)
            + (IF prefix \in {"info", "contact", "hello", "sales"} THEN 15
               ELSE IF prefix \in {"support", "admin", "team"} THEN 10
               ELSE IF prefix \in {"estimate", "quote", "service"} THEN 8
               ELSE 0)
            + (IF Includes(email, domain) THEN 10 ELSE 0)
    IN Max(0, Min(100, score))
scoreEmailConfidence(email, source, validationResult, domain) ==
    LET prefix == ToLowerCase(LocalPart(email))
        score ==
            50
            + sourceBonus(source)
            + (IF validationResult = "valid" THEN 20
               ELSE IF validationResult = "invalid" THEN -40 ELSE 0)
            + (IF prefix \in {"info", "contact", "hello", "sales"} THEN 15
               ELSE IF prefix \in {"support", "admin", "team"} THEN 10
               ELSE IF prefix \in {"estimate", "quote", "service"} THEN 8
               ELSE 0)
            + (IF Includes(email, domain) THEN 10 ELSE 0)
    IN Max(0, Min(100, score))

(***************************************************************************)
(* SpecConfidence: scoreEmailConfidence applied to one address under each  *)
(* source tag                                                              *)
(***************************************************************************)
ConfEmails == {"info@acme.com", "Sales@acme.com", "support@acme.com",
               "quote@acme.com", "jane.doe@acme.com", "office@other.org",
               "contact@acme.com.evil.net", "hello@gmail.com",
               "team@sub.acme.com", "not-an-email", "admin@", "estimate@acme.co"}
ConfValidations == {"valid", "invalid", "unknown"}
ConfDomains == {"acme.com", "other.org", "sub.acme.com"}
ConfSources == {"scraped-mailto", "scraped-html", "pattern-common"}

otherThanConf ==
    <<trustVars, emailVars, socialVars, scoreVars, intelVars, runVars>>

InitConfidence ==
    /\ cArgs \in {Some([email |-> e, validationResult |-> v, domain |-> d]) :
                     e \in ConfEmails, v \in ConfValidations, d \in ConfDomains}
    /\ cRet = [src \in ConfSources |-> Null]
    /\ TrustIdle /\ EmailIdle /\ SocialIdle /\ ScoreIdle /\ IntelIdle /\ RunIdle

ScoreEmailConfidence ==
    /\ \E src \in ConfSources :
          /\ IsNull(cRet[src])
          /\ cRet' = [cRet EXCEPT ![src] =
                Some(scoreEmailConfidence(Val(cArgs).email, src,
                                          Val(cArgs).validationResult,
                                          Val(cArgs).domain))]
    /\ UNCHANGED <<cArgs, otherThanConf>>

NextConfidence == ScoreEmailConfidence

SpecConfidence == InitConfidence /\ [][NextConfidence]_vars

\* C6: for the same address, validation verdict and target domain, the
\* confidence under source 'scraped-mailto' is at least the confidence under
\* source 'pattern-common'.
C6_MailtoAtLeastPattern ==
    (~IsNull(cArgs) /\ ~IsNull(cRet["scraped-mailto"]) /\ ~IsNull(cRet["pattern-common"]))
    => Val(cRet["scraped-mailto"]) >= Val(cRet["pattern-common"])

\* both scores computed, strictly apart, for an address at the target domain
C6_Witness ==
    /\ ~IsNull(cArgs) /\ Val(cArgs).email = "jane.doe@acme.com"
    /\ Val(cArgs).domain = "acme.com" /\ Val(cArgs).validationResult = "unknown"
    /\ cRet["scraped-mailto"] = Some(90) /\ cRet["pattern-common"] = Some(70)

(***************************************************************************)
(* discoverEmails / getBestEmail                                           *)
(***************************************************************************)
\* q.map(f) for f = toLowerCase
LowerAll(q) == [i \in 1..Len(q) |-> ToLowerCase(q[i])]

\* sources after steps 1 and 2: scraped first, a pattern only where unset
sourcesOf(scrapedEmails, patternEmails) ==
    LET scraped == LowerAll(scrapedEmails)
        all == Dedupe(scraped \o LowerAll(patternEmails))
    IN [e \in {all[i] : i \in 1..Len(all)} |->
           IF InSeq(e, scraped) THEN "scraped-html" ELSE "pattern-common"]

\* the validation loop of step 3, for one address
\* the same without the MX test
validationOfFormatOnly(email, hasMX) ==
    IF ~isValidEmailFormat(email) THEN "invalid" ELSE "unknown"
validationOf(email, hasMX) ==
    IF ~isValidEmailFormat(email) THEN "invalid"
    ELSE IF ~hasMX THEN "invalid"
    ELSE "unknown"
confidenceOf(email, source, hasMX, domain) ==
    IF ~isValidEmailFormat(email) THEN 0
    ELSE scoreEmailConfidence(email, source, validationOf(email, hasMX), domain)

\* Array.prototype.sort with (a, b) => key[b] - key[a]: descending, and stable
\* (the engines that provide the global fetch this code uses sort stably):
\* each element goes behind the elements whose key is at least its own.
\* The first definition puts it before its equals instead
RECURSIVE sortByConfidenceTiesLast(_, _)
sortByConfidenceTiesLast(q, key) ==
    IF Len(q) <= 1 THEN q
    ELSE LET sorted == sortByConfidenceTiesLast(SubSeq(q, 1, Len(q) - 1), key)
             x == q[Len(q)]
             kx == key[x]
             p == Cardinality({i \in 1..Len(sorted) : key[sorted[i]] > kx})
         IN SubSeq(sorted, 1, p) \o <<x>> \o SubSeq(sorted, p + 1, Len(sorted))
RECURSIVE sortByConfidence(_, _)
sortByConfidence(q, key) ==
    IF Len(q) <= 1 THEN q
    ELSE LET sorted == sortByConfidence(SubSeq(q, 1, Len(q) - 1), key)
             x == q[Len(q)]
             kx == key[x]
             p == Cardinality({i \in 1..Len(sorted) : key[sorted[i]] >= kx})
         IN SubSeq(sorted, 1, p) \o <<x>> \o SubSeq(sorted, p + 1, Len(sorted))

\* validEmails without the filter
validEmailsUnfiltered(emailArray, validationResults, confidence) ==
    sortByConfidence(emailArray, confidence)
validEmails(emailArray, validationResults, confidence) ==
    LET keep(e) == validationResults[e] # "invalid"
    IN sortByConfidence(SelectSeq(emailArray, keep), confidence)

emptyDiscovery ==
    [emails |-> <<>>, patterns |-> <<>>, confidence |-> <<>>,
     validationResults |-> <<>>, sources |-> <<>>]

getBestEmail(result) ==
    IF Len(result.emails) = 0 THEN Null ELSE Some(result.emails[1])

\* result.emails.filter(email => (result.confidence[email] || 0) >= minConfidence)
confidenceOrZero(confidence, email) ==
    IF email \in DOMAIN confidence THEN confidence[email] ELSE 0
getEmailsByConfidence(result, minConfidence) ==
    LET atLeast(email) == confidenceOrZero(result.confidence, email) >= minConfidence
    IN SelectSeq(result.emails, atLeast)

BusinessNames == {"Acme Roofing", "Al's Pizza", "A1 Co", "Info Tech", ""}
EmailWebsites == {"https://www.acme.com", "acme.com/contact", "http://localhost",
                  "https://other.org", "my site.com", "https://www."}
\* what the GET of the website returns
ScrapedPages ==
    {[ok |-> FALSE, matches |-> <<>>, mailtos |-> <<>>],
     [ok |-> TRUE, matches |-> <<>>, mailtos |-> <<>>],
     [ok |-> TRUE, matches |-> <<"Info@acme.com", "owner@gmail.com", "info@acme.com">>,
      mailtos |-> <<"Info@acme.com">>],
     [ok |-> TRUE,
      matches |-> <<"logo@2x.png", "noreply@acme.com", "jane.doe@acme.com",
                    "sales@acme.com">>,
      mailtos |-> <<"noreply@acme.com">>],
     [ok |-> TRUE, matches |-> <<"contact@acme.com", "office@acme.com">>,
      mailtos |-> <<>>],
     [ok |-> TRUE, matches |-> <<"zed@partner.org", "hello@acme.com">>,
      mailtos |-> <<"hello@acme.com">>]}

otherThanEmail ==
    <<trustVars, confVars, socialVars, scoreVars, intelVars, runVars>>

InitEmail ==
    /\ epc = "start"
    /\ eName \in BusinessNames
    /\ eWebsite \in EmailWebsites
    /\ eAll = <<>> /\ eSources = <<>> /\ ePatterns = <<>>
    /\ eResult = Null /\ eBest = Null
    /\ eMailtos = <<>> /\ eHasMX = Null /\ eHigh = <<>>
    /\ TrustIdle /\ ConfIdle /\ SocialIdle /\ ScoreIdle /\ IntelIdle /\ RunIdle

\* if (!domain) return the empty result
DiscoverEmailsNoDomain ==
    /\ epc = "start"
    /\ noDomain(extractEmailDomain(eWebsite))
    /\ eResult' = Some(emptyDiscovery)
    /\ epc' = "done"
    /\ UNCHANGED <<eName, eWebsite, eAll, eSources, ePatterns, eBest, eMailtos,
                   eHasMX, eHigh, otherThanEmail>>

\* steps 1 and 2: the scrape returns, patterns are generated, up to the MX lookup
DiscoverEmailsScrape ==
    /\ epc = "start"
    /\ ~noDomain(extractEmailDomain(eWebsite))
    /\ \E page \in ScrapedPages :
          LET scrapedEmails == scrapeEmailsFromWebsite(page)
              patternEmails == generateEmailPatterns(eName, eWebsite)
          IN /\ eAll' = Dedupe(LowerAll(scrapedEmails) \o LowerAll(patternEmails))
             /\ eSources' = sourcesOf(scrapedEmails, patternEmails)
             /\ ePatterns' = patternEmails
             /\ eMailtos' = (IF page.ok THEN LowerAll(page.mailtos) ELSE <<>>)
    /\ epc' = "awaitingMX"
    /\ UNCHANGED <<eName, eWebsite, eResult, eBest, eHasMX, eHigh, otherThanEmail>>

\* step 3: checkMXRecords(domain) returns; validate, score, filter, sort, return
DiscoverEmailsValidate ==
    /\ epc = "awaitingMX"
    /\ \E hasMX \in BOOLEAN :
          LET domain == Val(extractEmailDomain(eWebsite))
              emails == {eAll[i] : i \in 1..Len(eAll)}
              validationResults == [e \in emails |-> validationOf(e, hasMX)]
              confidence == [e \in emails |->
                                confidenceOf(e, eSources[e], hasMX, domain)]
          IN /\ eResult' = Some([emails |-> validEmails(eAll, validationResults, confidence),
                              patterns |-> ePatterns,
                              confidence |-> confidence,
                              validationResults |-> validationResults,
                              sources |-> eSources])
             /\ eHasMX' = Some(hasMX)
    /\ epc' = "done"
    /\ UNCHANGED <<eName, eWebsite, eAll, eSources, ePatterns, eBest, eMailtos,
                   eHigh, otherThanEmail>>

\* bestEmail = getBestEmail(emailDiscovery); highConfidenceEmails =
\* getEmailsByConfidence(emailDiscovery, 60)
GetBestEmail ==
    /\ epc = "done"
    /\ eBest' = getBestEmail(Val(eResult))
    /\ eHigh' = getEmailsByConfidence(Val(eResult), 60)
    /\ epc' = "best"
    /\ UNCHANGED <<eName, eWebsite, eAll, eSources, ePatterns, eResult, eMailtos,
                   eHasMX, otherThanEmail>>

NextEmail ==
    \/ DiscoverEmailsNoDomain
    \/ DiscoverEmailsScrape
    \/ DiscoverEmailsValidate
    \/ GetBestEmail

SpecEmail == InitEmail /\ [][NextEmail]_vars

\* C7: no address in the emails list returned by discoverEmails has
\* validationResults[address] = 'invalid'; the invalid ones stay in the raw
\* maps only.
C7_NoInvalidReturned ==
    epc \in {"done", "best"} =>
        LET r == Val(eResult)
        IN /\ \A i \in 1..Len(r.emails) :
                 /\ r.emails[i] \in DOMAIN r.validationResults
                 /\ r.validationResults[r.emails[i]] # "invalid"
           /\ \A e \in DOMAIN r.validationResults :
                 r.validationResults[e] = "invalid" =>
                     /\ ~InSeq(e, r.emails)
                     /\ e \in DOMAIN r.confidence /\ e \in DOMAIN r.sources

\* a result with addresses returned and others kept back as invalid
C7_Witness ==
    /\ epc = "done"
    /\ Len(Val(eResult).emails) > 0
    /\ \E e \in DOMAIN Val(eResult).validationResults :
          Val(eResult).validationResults[e] = "invalid"

PositionIn(q, x) == CHOOSE i \in 1..Len(q) : q[i] = x

\* C8: getBestEmail returns none for an empty emails list; otherwise an address
\* of maximum confidence, and among those tied at the maximum the one inserted
\* first into the candidate set.
C8_BestIsFirstMaximum ==
    epc = "best" =>
        LET r == Val(eResult)
        IN IF Len(r.emails) = 0 THEN eBest = Null
           ELSE /\ ~IsNull(eBest)
                /\ InSeq(Val(eBest), r.emails)
                /\ \A i \in 1..Len(r.emails) :
                      LET e == r.emails[i]
                      IN /\ r.confidence[e] <= r.confidence[Val(eBest)]
                         /\ (r.confidence[e] = r.confidence[Val(eBest)]
                             => PositionIn(eAll, Val(eBest)) <= PositionIn(eAll, e))

\* the best address is tied with a later candidate
C8_Witness ==
    /\ epc = "best" /\ ~IsNull(eBest)
    /\ \E i \in 2..Len(Val(eResult).emails) :
          Val(eResult).confidence[Val(eResult).emails[i]]
              = Val(eResult).confidence[Val(eBest)]

\* an empty result gives none
C8_WitnessEmpty ==
    epc = "best" /\ eBest = Null /\ Len(eAll) > 0

(***************************************************************************)
(* socialVerifier.ts                                                       *)
(***************************************************************************)
\* s.replace(/\s+/g, sep): every run of whitespace becomes one sep
RECURSIVE ReplaceSpaceRuns(_, _, _, _)
ReplaceSpaceRuns(s, sep, from, to) ==
    IF from > to THEN ""
    ELSE IF from = to
         THEN IF CharAt(s, from) \notin SpaceChars THEN CharAt(s, from)
              ELSE IF from > 1 /\ CharAt(s, from - 1) \in SpaceChars THEN ""
              ELSE sep
    ELSE LET mid == (from + to) \div 2
         IN ReplaceSpaceRuns(s, sep, from, mid) \o ReplaceSpaceRuns(s, sep, mid + 1, to)
ReplaceSpaces(s, sep) == ReplaceSpaceRuns(s, sep, 1, Len(s))

\* businessName.toLowerCase().replace(/[^a-z0-9\s]/g, "")
cleanName(businessName) == KeepAlnumSpace(ToLowerCase(businessName))

legalSuffixes == <<"llc", "inc", "corp", "ltd", "limited", "company", "co", "group">>

\* s.replace(/\s+(llc|inc|corp|ltd|limited|company|co|group)\s*$/i, "")
stripLegalSuffix(s) ==
    LET t == TrimEnd(s)
        hits == {i \in 1..Len(legalSuffixes) :
                    /\ EndsWith(ToLowerCase(t), legalSuffixes[i])
                    /\ Len(t) > Len(legalSuffixes[i])
                    /\ CharAt(t, Len(t) - Len(legalSuffixes[i])) \in SpaceChars}
    IN IF hits = {} THEN s
       ELSE LET w == legalSuffixes[CHOOSE i \in hits : TRUE]
            IN TrimEnd(SubSeq(t, 1, Len(t) - Len(w)))

firstWordUrl(base, name, tail) ==
    LET firstWord == FirstWord(name)
    IN IF firstWord # "" /\ Len(firstWord) > 2
       THEN <<base \o firstWord \o tail>> ELSE <<>>

generateLinkedInUrls(businessName) ==
    LET name == cleanName(businessName)
        base == "https://www.linkedin.com/company/"
    IN Dedupe(<<base \o ReplaceSpaces(name, "-")>>
              \o firstWordUrl(base, name, "")
              \o <<base \o ReplaceSpaces(name, ""),
                   base \o ReplaceSpaces(stripLegalSuffix(name), "-")>>)

generateFacebookUrls(businessName) ==
    LET name == cleanName(businessName)
        base == "https://www.facebook.com/"
    IN Dedupe(<<base \o ReplaceSpaces(name, ""), base \o ReplaceSpaces(name, ".")>>
              \o firstWordUrl(base, name, ""))

generateInstagramUrls(businessName) ==
    LET name == cleanName(businessName)
        base == "https://www.instagram.com/"
    IN Dedupe(<<base \o ReplaceSpaces(name, "_") \o "/",
                base \o ReplaceSpaces(name, "") \o "/">>
              \o firstWordUrl(base, name, "/"))

\* the platforms verifySocialProfiles probes, in order, with the confidence of
\* a guessed hit
ProbedPlatforms == <<"linkedin", "facebook", "instagram">>
guessedUrls(platform, businessName) ==
    IF platform = "linkedin" THEN generateLinkedInUrls(businessName)
    ELSE IF platform = "facebook" THEN generateFacebookUrls(businessName)
    ELSE generateInstagramUrls(businessName)
guessedConfidenceFlat(platform) == 85
guessedConfidence(platform) ==
    IF platform = "linkedin" THEN 85
    ELSE IF platform = "facebook" THEN 80
    ELSE 75

\* extractSocialsFromWebsite on a page: page.ok is response.ok (FALSE also for
\* a thrown fetch), page.links the platforms whose link pattern matches
ExtractedPlatforms == <<"linkedin", "facebook", "instagram", "twitter">>
extractSocialsFromWebsite(page) ==
    IF ~page.ok THEN <<>>
    ELSE LET found(pl) == pl \in page.links
             hits == SelectSeq(ExtractedPlatforms, found)
         IN [i \in 1..Len(hits) |->
                [url |-> "https://" \o hits[i] \o ".com/linked", platform |-> hits[i],
                 exists |-> TRUE, confidence |-> 95, metrics |-> Null]]

\* the test that guards each verify step, and the same test always failing
neverFound(profiles, platform) == FALSE
alreadyFound(profiles, platform) ==
    \E i \in 1..Len(profiles) : profiles[i].platform = platform

\* profiles.sort((a, b) => b.confidence - a.confidence)
sortProfiles(profiles) ==
    sortByConfidence(profiles,
        [pr \in {profiles[i] : i \in 1..Len(profiles)} |-> pr.confidence])

socialResult(profiles) ==
    [profiles |-> profiles,
     summary |-> [totalFound |-> Len(profiles),
                  platforms |-> [i \in 1..Len(profiles) |-> profiles[i].platform],
                  bestProfile |-> IF Len(profiles) > 0 THEN Some(profiles[1].url)
                                  ELSE Null]]

SocialNames == {"Acme Roofing LLC", "Bob's", "A1 Co", "Info  Tech Group"}
SocialWebsites == {Null, Some(""), Some("https://acme.com")}
SocialPages ==
    {[ok |-> FALSE, links |-> {}]}
    \cup {[ok |-> TRUE, links |-> l] :
             l \in SUBSET {"linkedin", "facebook", "instagram", "twitter"}}
\* what the metrics scrape of a guessed LinkedIn or Facebook page returns
SocialMetrics == {Null, Some([followers |-> Null]), Some([followers |-> Some(1200)])}

otherThanSocial ==
    <<trustVars, confVars, emailVars, scoreVars, intelVars, runVars>>

InitSocial ==
    /\ spc = "start"
    /\ sName \in SocialNames
    /\ sWebsite \in SocialWebsites
    /\ sWebsiteProfiles = <<>> /\ sProfiles = <<>>
    /\ sProbes = [pl \in {"linkedin", "facebook", "instagram"} |-> 0]
    /\ sUrls = <<>> /\ sIdx = 0 /\ sResult = Null
    /\ TrustIdle /\ ConfIdle /\ EmailIdle /\ ScoreIdle /\ IntelIdle /\ RunIdle

\* the index in ProbedPlatforms of the next platform, from k on, that is not
\* in profiles yet; Len(ProbedPlatforms) + 1 if there is none
nextToVerify(profiles, k) ==
    LET open == {j \in k..Len(ProbedPlatforms) :
                    ~alreadyFound(profiles, ProbedPlatforms[j])}
    IN IF open = {} THEN Len(ProbedPlatforms) + 1
       ELSE CHOOSE j \in open : \A i \in open : j <= i

\* run on from step k with these profiles, up to the next await or the return
ContinueFrom(profiles, k) ==
    LET j == nextToVerify(profiles, k)
    IN IF j <= Len(ProbedPlatforms)
       THEN /\ spc' = ProbedPlatforms[j]
            /\ sUrls' = guessedUrls(ProbedPlatforms[j], sName)
            /\ sIdx' = 1
            /\ sProfiles' = profiles
            /\ sResult' = sResult
       ELSE /\ spc' = "done"
            /\ sUrls' = <<>>
            /\ sIdx' = 0
            /\ sProfiles' = sortProfiles(profiles)
            /\ sResult' = Some(socialResult(sortProfiles(profiles)))

\* if (website): neither null nor the empty string
hasWebsite(website) == IF IsNull(website) THEN FALSE ELSE Val(website) # ""

StageOf(platform) == CHOOSE j \in 1..Len(ProbedPlatforms) : ProbedPlatforms[j] = platform

\* if (website) is false: step 1 is skipped
VerifySocialNoWebsite ==
    /\ spc = "start"
    /\ ~hasWebsite(sWebsite)
    /\ ContinueFrom(<<>>, 1)
    /\ UNCHANGED <<sName, sWebsite, sWebsiteProfiles, sProbes, otherThanSocial>>

\* step 1: extractSocialsFromWebsite(website) returns
VerifySocialExtract ==
    /\ spc = "start"
    /\ hasWebsite(sWebsite)
    /\ \E page \in SocialPages :
          LET websiteProfiles == extractSocialsFromWebsite(page)
          IN /\ sWebsiteProfiles' = websiteProfiles
             /\ ContinueFrom(websiteProfiles, 1)
    /\ UNCHANGED <<sName, sWebsite, sProbes, otherThanSocial>>

\* checkUrlExists(url) returns exists: the platform's record is pushed
ProbeExists ==
    /\ spc \in {"linkedin", "facebook", "instagram"}
    /\ sProbes' = [sProbes EXCEPT ![spc] = @ + 1]
    /\ \E metrics \in SocialMetrics :
          /\ spc = "instagram" => metrics = Null
          /\ ContinueFrom(Append(sProfiles,
                 [url |-> sUrls[sIdx], platform |-> spc, exists |-> TRUE,
                  confidence |-> guessedConfidence(spc), metrics |-> metrics]),
               StageOf(spc) + 1)
    /\ UNCHANGED <<sName, sWebsite, sWebsiteProfiles, otherThanSocial>>

\* checkUrlExists(url) returns not exists (or threw): next URL, or give up
ProbeMissing ==
    /\ spc \in {"linkedin", "facebook", "instagram"}
    /\ sProbes' = [sProbes EXCEPT ![spc] = @ + 1]
    /\ IF sIdx < Len(sUrls)
       THEN /\ sIdx' = sIdx + 1
            /\ UNCHANGED <<spc, sUrls, sProfiles, sResult>>
       ELSE ContinueFrom(sProfiles, StageOf(spc) + 1)
    /\ UNCHANGED <<sName, sWebsite, sWebsiteProfiles, otherThanSocial>>

NextSocial ==
    \/ VerifySocialNoWebsite
    \/ VerifySocialExtract
    \/ ProbeExists
    \/ ProbeMissing

SpecSocial == InitSocial /\ [][NextSocial]_vars

\* C9: a platform for which website-link extraction produced a profile gets no
\* existence probe, and the profiles list holds at most one record per platform.
C9_NoProbeAfterWebsiteHit ==
    spc # "idle" =>
        /\ \A pl \in {"linkedin", "facebook", "instagram"} :
              (\E i \in 1..Len(sWebsiteProfiles) : sWebsiteProfiles[i].platform = pl)
              => sProbes[pl] = 0
        /\ \A i, j \in 1..Len(sProfiles) :
              sProfiles[i].platform = sProfiles[j].platform => i = j
        /\ spc = "done" => Val(sResult).profiles = sProfiles

\* a finished run: facebook came from the website, linkedin was probed
C9_Witness ==
    /\ spc = "done"
    /\ \E i \in 1..Len(sWebsiteProfiles) : sWebsiteProfiles[i].platform = "facebook"
    /\ sProbes["facebook"] = 0 /\ sProbes["linkedin"] > 1
    /\ Len(Val(sResult).profiles) = 3

(***************************************************************************)
(* scoring.ts.  A rating is held in tenths (3.6 is 36); the points are     *)
(* integers, so Math.round leaves the total as it is.                      *)
(***************************************************************************)
clamp(n, min, max) == Max(min, Min(max, n))

siteBuilders == <<"wixsite", "wix.com", "square.site", "squarespace", "weebly",
                  "godaddysites", "webflow">>
builderPenalty(website) ==
    LET w == ToLowerCase(website)
    IN IF \E i \in 1..Len(siteBuilders) : Includes(w, siteBuilders[i]) THEN 8 ELSE 0

\* input.x ?? dflt
OrElse(o, dflt) == IF IsNull(o) THEN dflt ELSE Val(o)

\* the hard filter, and the same test without toUpperCase
isPermanentlyClosedExactCase(status) == Includes(status, "CLOSED_PERMANENTLY")
isPermanentlyClosed(status) == Includes(ToUpperCase(status), "CLOSED_PERMANENTLY")

closedOutput ==
    [score |-> 0, reasons |-> <<"Permanently closed (skip)">>,
     signals |-> << <<"closed", 100>> >>]

\* each signal: [points, reasons, signals] it adds
websiteSignal(website) ==
    IF website = ""
    THEN [points |-> 25,
          reasons |-> <<"No website (big automation + marketing gap)">>,
          signals |-> << <<"no_website", 25>> >>]
    ELSE IF builderPenalty(website) > 0
    THEN [points |-> builderPenalty(website),
          reasons |-> <<"Website looks like a site-builder (upgrade opportunity)">>,
          signals |-> << <<"site_builder", builderPenalty(website)>> >>]
    ELSE [points |-> 0, reasons |-> <<>>, signals |-> << <<"has_website", 0>> >>]

\* the same with no points for the highest tier
reviewsSignalNoFloor(reviews) ==
    LET tier == IF reviews <= 5
                THEN <<18, "Very low review volume (weak online footprint)">>
                ELSE IF reviews <= 20
                THEN <<14, "Low review volume (weak online footprint)">>
                ELSE IF reviews <= 60
                THEN <<10, "Moderate review volume (growth opportunity)">>
                ELSE IF reviews <= 150
                THEN <<6, "Decent review volume (established presence)">>
                ELSE <<0, "High review volume (strong presence)">>
    IN [points |-> tier[1], reasons |-> <<tier[2]>>,
        signals |-> << <<"low_reviews", tier[1]>> >>]
reviewsSignal(reviews) ==
    LET tier == IF reviews <= 5
                THEN <<18, "Very low review volume (weak online footprint)">>
                ELSE IF reviews <= 20
                THEN <<14, "Low review volume (weak online footprint)">>
                ELSE IF reviews <= 60
                THEN <<10, "Moderate review volume (growth opportunity)">>
                ELSE IF reviews <= 150
                THEN <<6, "Decent review volume (established presence)">>
                ELSE <<2, "High review volume (strong presence)">>
    IN [points |-> tier[1], reasons |-> <<tier[2]>>,
        signals |-> << <<"low_reviews", tier[1]>> >>]

ratingSignal(rating10) ==
    LET tier == IF rating10 > 0
                THEN IF rating10 < 36
                     THEN <<18, "Poor rating (major ops / CX gap)">>
                     ELSE IF rating10 < 40
                     THEN <<14, "Below average rating (ops / CX improvement needed)">>
                     ELSE IF rating10 < 43
                     THEN <<9, "Mediocre rating (ops / CX gap)">>
                     ELSE IF rating10 < 46
                     THEN <<4, "Good rating (minor improvement opportunities)">>
                     ELSE <<1, "Excellent rating (well-established business)">>
                ELSE <<6, "No rating data (possible low activity / incomplete profile)">>
    IN [points |-> tier[1], reasons |-> <<tier[2]>>,
        signals |-> << <<"rating_gap", tier[1]>> >>]

phoneSignal(phone) ==
    IF phone = ""
    THEN [points |-> 8, reasons |-> <<"No phone listed (conversion friction)">>,
          signals |-> << <<"no_phone", 8>> >>]
    ELSE [points |-> 0, reasons |-> <<>>, signals |-> << <<"phone_present", 0>> >>]

\* the discount is applied to the running total, the reason only above 20;
\* the first definition never gives the reason
operationalSignalSilent(status, running) ==
    IF Includes(ToUpperCase(status), "OPERATIONAL")
    THEN [points |-> -2, reasons |-> <<>>, signals |-> << <<"operational", -2>> >>]
    ELSE [points |-> 0, reasons |-> <<>>, signals |-> <<>>]
\* the same with the test made on the total before the discount
operationalSignalBeforeDiscount(status, running) ==
    IF Includes(ToUpperCase(status), "OPERATIONAL")
    THEN [points |-> -2,
          reasons |-> IF running > 20
                      THEN <<"Currently operational (active business)">> ELSE <<>>,
          signals |-> << <<"operational", -2>> >>]
    ELSE [points |-> 0, reasons |-> <<>>, signals |-> <<>>]
operationalSignal(status, running) ==
    IF Includes(ToUpperCase(status), "OPERATIONAL")
    THEN [points |-> -2,
          reasons |-> IF running - 2 > 20
                      THEN <<"Currently operational (active business)">> ELSE <<>>,
          signals |-> << <<"operational", -2>> >>]
    ELSE [points |-> 0, reasons |-> <<>>, signals |-> <<>>]

\* let score = 0, and a total kept from the call before
initialScoreCarried == IF IsNull(aOut) THEN 0 ELSE Val(aOut).score
initialScore == 0

\* one run of the scorer: what it returns, and recorded, the local array
\* reasons as it stands before deduplication
scoreRun(input) ==
    LET rating == OrElse(input.rating, 0)
        reviews == OrElse(input.user_ratings_total, 0)
        website == Trim(OrElse(input.website, ""))
        phone == Trim(OrElse(input.phone, ""))
        status == Trim(OrElse(input.business_status, ""))
    IN IF isPermanentlyClosed(status)
       THEN [score |-> closedOutput.score, reasons |-> closedOutput.reasons,
             signals |-> closedOutput.signals, recorded |-> closedOutput.reasons]
       ELSE LET s1 == websiteSignal(website)
                s2 == reviewsSignal(reviews)
                s3 == ratingSignal(rating)
                s4 == phoneSignal(phone)
                running == initialScore + s1.points + s2.points + s3.points
                           + s4.points
                s5 == operationalSignal(status, running)
                score == clamp(running + s5.points, 0, 100)
                recorded == s1.reasons \o s2.reasons \o s3.reasons
                            \o s4.reasons \o s5.reasons
                dedupReasons == Dedupe(recorded)
            IN [score |-> score,
                reasons |-> IF score > 0 /\ Len(dedupReasons) = 0
                            THEN <<"Automation opportunity detected">>
                            ELSE dedupReasons,
                signals |-> s1.signals \o s2.signals \o s3.signals
                            \o s4.signals \o s5.signals,
                recorded |-> recorded]

returned(run) ==
    [score |-> run.score, reasons |-> run.reasons, signals |-> run.signals]
computeAutomationNeedScoreDetailed(input) == returned(scoreRun(input))

ScoreRatings == {Null, Some(0), Some(32), Some(35), Some(36), Some(39), Some(40),
                 Some(42), Some(43), Some(45), Some(46), Some(50)}
ScoreReviews == {Null, Some(0), Some(3), Some(5), Some(6), Some(20), Some(21),
                 Some(60), Some(61), Some(150), Some(151)}
ScoreWebsites == {Null, Some("  "), Some("https://acme.com"),
                  Some("https://acme.wixsite.com/home"),
                  Some("https://Foo.SquareSpace.com")}
ScorePhones == {Null, Some(" "), Some("555-0100")}
ScoreStatuses == {Null, Some("OPERATIONAL"), Some("Operational"),
                  Some("CLOSED_TEMPORARILY"), Some("CLOSED_PERMANENTLY"),
                  Some(" closed_permanently ")}

otherThanScore ==
    <<trustVars, confVars, emailVars, socialVars, intelVars, runVars>>

InitScore ==
    /\ apc = "start"
    /\ aInput \in {Some([rating |-> r, user_ratings_total |-> n, website |-> w,
                         phone |-> ph, business_status |-> st]) :
                      r \in ScoreRatings, n \in ScoreReviews, w \in ScoreWebsites,
                      ph \in ScorePhones, st \in ScoreStatuses}
    /\ aOut = Null /\ aReasons = <<>> /\ aAgain = Null
    /\ TrustIdle /\ ConfIdle /\ EmailIdle /\ SocialIdle /\ IntelIdle /\ RunIdle

ComputeAutomationNeedScoreDetailed ==
    /\ apc = "start"
    /\ \E run \in {scoreRun(Val(aInput))} :
          /\ aOut' = Some(returned(run))
          /\ aReasons' = run.recorded
    /\ apc' = "done"
    /\ UNCHANGED <<aInput, aAgain, otherThanScore>>

\* a second call with the same input
ComputeAgain ==
    /\ apc = "done"
    /\ aAgain' = Some(computeAutomationNeedScoreDetailed(Val(aInput)))
    /\ apc' = "again"
    /\ UNCHANGED <<aInput, aOut, aReasons, otherThanScore>>

NextScore == ComputeAutomationNeedScoreDetailed \/ ComputeAgain

SpecScore == InitScore /\ [][NextScore]_vars

\* C10: an input whose business_status contains "CLOSED_PERMANENTLY" in any
\* letter case scores exactly 0 with a single reason, whatever the rating,
\* review count, website and phone; no other signal is evaluated.
C10_PermanentlyClosedScoresZero ==
    (/\ apc # "start"
     /\ ~IsNull(Val(aInput).business_status)
     /\ Includes(ToUpperCase(Val(Val(aInput).business_status)), "CLOSED_PERMANENTLY"))
    => /\ Val(aOut).score = 0
       /\ Len(Val(aOut).reasons) = 1
       /\ Val(aOut).signals = << <<"closed", 100>> >>

\* a lower-case closed status on a record that would otherwise score high
C10_Witness ==
    /\ apc = "done"
    /\ Val(aInput).business_status = Some(" closed_permanently ")
    /\ Val(aInput).website = Null /\ Val(aInput).phone = Null
    /\ Val(aInput).rating = Some(32)
    /\ Val(aOut).score = 0

C12_Candidate ==
    /\ apc \in {"done", "again"}
    /\ IsNull(Val(aInput).website) /\ IsNull(Val(aInput).phone)
    /\ Val(aInput).user_ratings_total = Some(3)
    /\ Val(aInput).rating = Some(32)
    /\ Val(aInput).business_status = Some("OPERATIONAL")

\* C12 as stated: that candidate scores 67 and the scorer records exactly 4
\* reasons for it before deduplication, the operational one among them.
C12_SixtySevenFourReasons ==
    C12_Candidate =>
        /\ Val(aOut).score = 67
        /\ Len(aReasons) = 4
        /\ InSeq("Currently operational (active business)", aReasons)

\* C12: that candidate scores 25+18+18+8-2 = 67 and the scorer records exactly
\* 5 reasons for it before deduplication (no website, reviews, rating, no
\* phone, operational), all of them returned.
C12_SixtySevenFiveReasons ==
    C12_Candidate =>
        /\ Val(aOut).score = 67
        /\ Len(aReasons) = 5
        /\ aReasons[5] = "Currently operational (active business)"
        /\ Val(aOut).reasons = aReasons

C12_Witness == C12_Candidate /\ apc = "done" /\ Val(aOut).score = 67

(***************************************************************************)
(* websiteIntelligence.ts.  The detectors take lower, the HTML after       *)
(* toLowerCase(); the patterns with the i flag are matched against it too. *)
(***************************************************************************)
\* one row of a detector: some marker of any and every marker of all occur
markerHit(lower, row) ==
    /\ \E m \in row.any : Includes(lower, m)
    /\ \A m \in row.all : Includes(lower, m)
RECURSIVE namesDetected(_, _)
namesDetected(lower, table) ==
    IF Len(table) = 0 THEN <<>>
    ELSE (IF markerHit(lower, Head(table)) THEN <<Head(table).name>> ELSE <<>>)
         \o namesDetected(lower, Tail(table))

cmsTable ==
    <<[any |-> {"wp-content", "wordpress"}, all |-> {}, name |-> "WordPress"],
      [any |-> {"shopify", "cdn.shopify.com"}, all |-> {}, name |-> "Shopify"],
      [any |-> {"wixsite", "wix.com"}, all |-> {}, name |-> "Wix"],
      [any |-> {"squarespace"}, all |-> {}, name |-> "Squarespace"],
      [any |-> {"webflow"}, all |-> {}, name |-> "Webflow"],
      [any |-> {"weebly"}, all |-> {}, name |-> "Weebly"],
      [any |-> {"godaddy"}, all |-> {}, name |-> "GoDaddy Website Builder"]>>
cmsFromHeader(serverHeader) ==
    IF Includes(serverHeader, "wordpress") THEN Some("WordPress")
    ELSE IF Includes(serverHeader, "wix") THEN Some("Wix")
    ELSE Null
firstOrHeader(names, poweredBy) ==
    IF Len(names) > 0 THEN Some(names[1])
    ELSE IF IsNull(poweredBy) THEN Null
    ELSE cmsFromHeader(ToLowerCase(Val(poweredBy)))
detectCMS(lower, poweredBy) == firstOrHeader(namesDetected(lower, cmsTable), poweredBy)

analyticsTable ==
    <<[any |-> {"google-analytics", "googletagmanager"}, all |-> {},
       name |-> "Google Analytics"],
      [any |-> {"facebook.com/tr", "fbevents"}, all |-> {}, name |-> "Facebook Pixel"],
      [any |-> {"hotjar"}, all |-> {}, name |-> "Hotjar"],
      [any |-> {"mixpanel"}, all |-> {}, name |-> "Mixpanel"]>>
detectAnalytics(lower) == namesDetected(lower, analyticsTable)

chatTable ==
    <<[any |-> {"intercom", "intercomcdn"}, all |-> {}, name |-> "Intercom"],
      [any |-> {"drift.com", "js.driftt.com"}, all |-> {}, name |-> "Drift"],
      [any |-> {"tawk.to", "tawkto"}, all |-> {}, name |-> "Tawk.to"],
      [any |-> {"livechat"}, all |-> {}, name |-> "LiveChat"],
      [any |-> {"zendesk", "zdassets"}, all |-> {}, name |-> "Zendesk Chat"],
      [any |-> {"crisp.chat"}, all |-> {}, name |-> "Crisp"]>>
detectChatWidgets(lower) == namesDetected(lower, chatTable)

bookingTable ==
    <<[any |-> {"calendly"}, all |-> {}, name |-> "Calendly"],
      [any |-> {"acuityscheduling"}, all |-> {}, name |-> "Acuity Scheduling"],
      [any |-> {"squareup.com"}, all |-> {"appointments"},
       name |-> "Square Appointments"],
      [any |-> {"scheduleonce", "oncehub"}, all |-> {}, name |-> "ScheduleOnce"],
      [any |-> {"setmore"}, all |-> {}, name |-> "Setmore"],
      [any |-> {"simplybook"}, all |-> {}, name |-> "SimplyBook.me"]>>
\* calendlySlug is the capture of /calendly\.com\/([a-zA-Z0-9_-]+)/i, if any
detectBookingSystems(lower, calendlySlug) ==
    [systems |-> namesDetected(lower, bookingTable),
     urls |-> IF Includes(lower, "calendly") /\ ~IsNull(calendlySlug)
              THEN <<"https://calendly.com/" \o Val(calendlySlug)>> ELSE <<>>]

\* contactHref is the capture of /href=["']([^"']*contact[^"']*)["']/i, if any
detectContactForm(lower, contactHref) ==
    [hasForm |-> \E m \in {"<form", "contact", "get in touch", "send message"} :
                    Includes(lower, m),
     url |-> contactHref]

\* last index of the longest run of chars that starts at i (i - 1 if none)
RunEnd(str, i, chars) ==
    LET stops == {j \in i..Len(str) : CharAt(str, j) \notin chars}
    IN IF stops = {} THEN Len(str)
       ELSE (CHOOSE j \in stops : \A k \in stops : j <= k) - 1

\* \+?\s+word at index k
tailMatches(lower, k, word, plus) ==
    LET from == IF plus /\ CharAt(lower, k) = "+" THEN k + 1 ELSE k
        to == RunEnd(lower, from, SpaceChars)
    IN to >= from /\ StartsWith(SubSeq(lower, to + 1, Len(lower)), word)

\* capture of /(\d+)\+?\s+word/i (the "+" only if plus), leftmost match
digitsThenWord(lower, word, plus) ==
    LET starts == {i \in 1..Len(lower) :
                      /\ CharAt(lower, i) \in DigitChars
                      /\ tailMatches(lower, RunEnd(lower, i, DigitChars) + 1,
                                     word, plus)}
    IN IF starts = {} THEN Null
       ELSE LET i == CHOOSE a \in starts : \A b \in starts : a <= b
            IN Some(SubSeq(lower, i, RunEnd(lower, i, DigitChars)))

\* capture of /word(\d+)/i, leftmost match
wordThenDigits(lower, word) ==
    LET starts == {i \in 1..Len(lower) :
                      /\ StartsWith(SubSeq(lower, i, Len(lower)), word)
                      /\ CharAt(lower, i + Len(word)) \in DigitChars}
    IN IF starts = {} THEN Null
       ELSE LET d == (CHOOSE a \in starts : \A b \in starts : a <= b) + Len(word)
            IN Some(SubSeq(lower, d, RunEnd(lower, d, DigitChars)))

\* parseInt of a string of decimal digits
RECURSIVE parseInt(_)
parseInt(digits) ==
    IF Len(digits) = 0 THEN 0
    ELSE parseInt(SubSeq(digits, 1, Len(digits) - 1)) * 10
         + (CHOOSE v \in 0..9 : ToString(v) = CharAt(digits, Len(digits)))

\* the first pattern that matches decides; then the images of the team section
firstCapture(captures) ==
    LET hits == {i \in 1..Len(captures) : ~IsNull(captures[i])}
    IN IF hits = {} THEN Null
       ELSE captures[CHOOSE i \in hits : \A j \in hits : i <= j]
countOrImages(capture, teamImgs) ==
    IF ~IsNull(capture) THEN Some(parseInt(Val(capture)))
    ELSE IF IsNull(teamImgs) THEN Null
    ELSE IF Val(teamImgs) >= 3 /\ Val(teamImgs) <= 100 THEN teamImgs
    ELSE Null
\* teamImgs is the number of <img in the first team/about section, if any
extractEmployeeCount(lower, teamImgs) ==
    countOrImages(firstCapture(<<digitsThenWord(lower, "employee", TRUE),
                                 wordThenDigits(lower, "team of "),
                                 digitsThenWord(lower, "team member", FALSE),
                                 wordThenDigits(lower, "staff of "),
                                 digitsThenWord(lower, "professional", FALSE)>>),
                  teamImgs)

\* new Date().getFullYear()
currentYear == 2026
\* yearCaptures are the years captured by the patterns that match, in the
\* order of the patterns
extractFoundedYear(yearCaptures) ==
    LET hits == {i \in 1..Len(yearCaptures) :
                    yearCaptures[i] >= 1900 /\ yearCaptures[i] <= currentYear}
    IN IF hits = {} THEN Null
       ELSE Some(yearCaptures[CHOOSE i \in hits : \A j \in hits : i <= j])

commonCerts == <<"BBB Accredited", "Licensed & Insured", "Certified",
                 "ISO Certified", "Insured", "Bonded", "Veteran Owned",
                 "Woman Owned", "Minority Owned", "Green Certified",
                 "Energy Star Partner">>
RECURSIVE certsIn(_, _)
certsIn(lower, certs) ==
    IF Len(certs) = 0 THEN <<>>
    ELSE (IF Includes(lower, ToLowerCase(Head(certs))) THEN <<Head(certs)>> ELSE <<>>)
         \o certsIn(lower, Tail(certs))
extractCertifications(lower) == certsIn(lower, commonCerts)

\* areaCaptures are the capitalised names found after the serving phrases
firstTen(q) == SubSeq(q, 1, Min(10, Len(q)))
extractServiceAreas(areaCaptures) == firstTen(Dedupe(areaCaptures))

\* q.join(sep)
RECURSIVE Join(_, _)
Join(q, sep) ==
    IF Len(q) = 0 THEN ""
    ELSE IF Len(q) = 1 THEN q[1]
    ELSE q[1] \o sep \o Join(Tail(q), sep)

\* if (x) for an optional number: defined and not 0
truthy(n) == IF IsNull(n) THEN FALSE ELSE Val(n) # 0

findingIf(cond, text) == IF cond THEN <<text>> ELSE <<>>
techFindings(cms, analytics, chatWidgets, systems) ==
    (IF IsNull(cms) THEN <<>> ELSE <<"CMS: " \o Val(cms)>>)
    \o findingIf(Len(analytics) > 0, "Analytics: " \o Join(analytics, ", "))
    \o findingIf(Len(chatWidgets) > 0, "Chat: " \o Join(chatWidgets, ", "))
    \o findingIf(Len(systems) > 0, "Booking: " \o Join(systems, ", "))
factFindings(employeeCount, foundedYear, certifications, serviceAreas) ==
    (IF truthy(employeeCount)
     THEN <<"Employees: ~" \o ToString(Val(employeeCount))>> ELSE <<>>)
    \o (IF truthy(foundedYear)
        THEN <<"Founded: " \o ToString(Val(foundedYear))>> ELSE <<>>)
    \o findingIf(Len(certifications) > 0, "Certs: " \o Join(certifications, ", "))
    \o findingIf(Len(serviceAreas) > 0,
                 "Service areas: " \o ToString(Len(serviceAreas)) \o " found")

weight(cond, points) == IF cond THEN points ELSE 0
completenessOf(cms, analytics, hasForm, hasLiveChat, hasBookingSystem, employeeCount, foundedYear, certifications) ==
    weight(~IsNull(cms), 15) + weight(Len(analytics) > 0, 10)
    + weight(hasForm, 15) + weight(hasLiveChat, 10)
    + weight(hasBookingSystem, 15)
    + weight(truthy(employeeCount), 15) + weight(truthy(foundedYear), 10)
    + weight(Len(certifications) > 0, 10)

\* the snapshot returned on success; an optional field that is absent is Null
snapshot(cms, analytics, chatWidgets, booking, contactForm, hasPhoneClick, employeeCount, foundedYear, certifications, serviceAreas, rawFindings) ==
    [technology |-> [cms |-> cms, analytics |-> Some(analytics),
                     chatWidgets |-> Some(chatWidgets),
                     bookingSystems |-> Some(booking.systems)],
     contactMethods |->
        [hasContactForm |-> contactForm.hasForm,
         hasLiveChat |-> Len(chatWidgets) > 0,
         hasBookingSystem |-> Len(booking.systems) > 0,
         hasPhoneClick |-> hasPhoneClick,
         contactFormUrl |-> contactForm.url,
         bookingUrl |-> IF Len(booking.urls) > 0 THEN Some(booking.urls[1]) ELSE Null],
     businessIntel |-> [employeeCount |-> employeeCount, foundedYear |-> foundedYear,
                        certifications |-> Some(certifications),
                        serviceAreas |-> Some(serviceAreas)],
     dataQuality |->
        [completeness |->
            Min(100, completenessOf(cms, analytics, contactForm.hasForm,
                                    Len(chatWidgets) > 0, Len(booking.systems) > 0,
                                    employeeCount, foundedYear, certifications))],
     rawFindings |-> rawFindings
                     \o techFindings(cms, analytics, chatWidgets, booking.systems)
                     \o factFindings(employeeCount, foundedYear, certifications,
                                     serviceAreas)]

\* the body of the try block once the HTML has been read
analyse(lower, page, rawFindings) ==
    snapshot(detectCMS(lower, page.poweredBy), detectAnalytics(lower),
             detectChatWidgets(lower),
             detectBookingSystems(lower, page.calendlySlug),
             detectContactForm(lower, page.contactHref), Includes(lower, "tel:"),
             extractEmployeeCount(lower, page.teamImgs),
             extractFoundedYear(page.yearCaptures), extractCertifications(lower),
             extractServiceAreas(page.areaCaptures), rawFindings)

\* createEmptyResult, and the same without the findings
createEmptyResultNoLog(rawFindings) ==
    [technology |-> [cms |-> Null, analytics |-> Null, chatWidgets |-> Null,
                     bookingSystems |-> Null],
     contactMethods |-> [hasContactForm |-> FALSE, hasLiveChat |-> FALSE,
                         hasBookingSystem |-> FALSE, hasPhoneClick |-> FALSE,
                         contactFormUrl |-> Null, bookingUrl |-> Null],
     businessIntel |-> [employeeCount |-> Null, foundedYear |-> Null,
                        certifications |-> Null, serviceAreas |-> Null],
     dataQuality |-> [completeness |-> 0],
     rawFindings |-> <<>>]
createEmptyResult(rawFindings) ==
    [technology |-> [cms |-> Null, analytics |-> Null, chatWidgets |-> Null,
                     bookingSystems |-> Null],
     contactMethods |-> [hasContactForm |-> FALSE, hasLiveChat |-> FALSE,
                         hasBookingSystem |-> FALSE, hasPhoneClick |-> FALSE,
                         contactFormUrl |-> Null, bookingUrl |-> Null],
     businessIntel |-> [employeeCount |-> Null, foundedYear |-> Null,
                        certifications |-> Null, serviceAreas |-> Null],
     dataQuality |-> [completeness |-> 0],
     rawFindings |-> rawFindings]

(***************************************************************************)
(* SpecIntel: one call of extractWebsiteIntelligence                       *)
(***************************************************************************)
IntelWebsites == {"acme.com", "https://acme.com", "my site.com"}
IntelHtmls ==
    {"<p>Hello</p>",
     "<FORM> wp-content Calendly.com/acme",
     "wix.com hotjar <form intercom setmore team of 12 Bonded",
     "Over 1,000 professionals. tel:555",
     "Shopify fbevents 25+ Employees",
     "<a href='/contact'>About us</a>",
     "squareup.com/appointments zdassets staff of 7"}
IntelPages ==
    {[html |-> h, poweredBy |-> p, teamImgs |-> t, yearCaptures |-> y,
      areaCaptures |-> a, calendlySlug |-> Some("acme"),
      contactHref |-> Some("/contact")] :
        h \in IntelHtmls, p \in {Null, Some("WordPress 6.4")},
        t \in {Null, Some(2), Some(5)},
        y \in {<<>>, <<1999>>, <<1850, 2015>>, <<2999>>},
        a \in {<<>>, <<"Austin", "Dallas", "Austin">>}}
FailedResponses == {[status |-> 404, statusText |-> "Not Found"],
                    [status |-> 500, statusText |-> "Internal Server Error"]}
FetchErrors == {"fetch failed", "getaddrinfo ENOTFOUND"}

otherThanIntel ==
    <<trustVars, confVars, emailVars, socialVars, scoreVars, runVars>>

InitIntel ==
    /\ ipc = "start"
    /\ iWebsite \in IntelWebsites
    /\ iFindings = <<>> /\ iResult = Null /\ iFetchCalls = 0 /\ iPath = "none"
    /\ TrustIdle /\ ConfIdle /\ EmailIdle /\ SocialIdle /\ ScoreIdle /\ RunIdle

\* up to await fetch(url, ...)
ExtractFetch ==
    /\ ipc = "start"
    /\ iFindings' = <<"Fetching " \o withScheme(iWebsite) \o "...">>
    /\ iFetchCalls' = iFetchCalls + 1
    /\ ipc' = "fetching"
    /\ UNCHANGED <<iWebsite, iResult, iPath, otherThanIntel>>

\* if (!response.ok)
ExtractNotOk ==
    /\ ipc = "fetching" /\ fetchUrlParses(iWebsite)
    /\ \E r \in FailedResponses :
          iResult' = Some(createEmptyResult(
              Append(iFindings,
                     "HTTP " \o ToString(r.status) \o ": " \o r.statusText)))
    /\ ipc' = "returned" /\ iPath' = "notOk"
    /\ UNCHANGED <<iWebsite, iFindings, iFetchCalls, otherThanIntel>>

\* the response is ok and its text is read
ExtractBody ==
    /\ ipc = "fetching" /\ fetchUrlParses(iWebsite)
    /\ \E page \in IntelPages :
          iResult' = Some(analyse(
              ToLowerCase(page.html), page,
              Append(iFindings,
                     "Fetched " \o ToString((2 * Len(page.html) + 1024) \div 2048)
                     \o "KB of HTML")))
    /\ ipc' = "returned" /\ iPath' = "body"
    /\ UNCHANGED <<iWebsite, iFindings, iFetchCalls, otherThanIntel>>

\* the timer fired controller.abort() while the fetch was pending
ExtractTimeout ==
    /\ ipc = "fetching" /\ fetchUrlParses(iWebsite)
    /\ iResult' = Some(createEmptyResult(
          Append(iFindings, "Error: This operation was aborted")))
    /\ ipc' = "returned" /\ iPath' = "timeout"
    /\ UNCHANGED <<iWebsite, iFindings, iFetchCalls, otherThanIntel>>

\* fetch or response.text() rejected (network error, unparseable URL)
ExtractFetchError ==
    /\ ipc = "fetching"
    /\ \E message \in FetchErrors :
          iResult' = Some(createEmptyResult(Append(iFindings, "Error: " \o message)))
    /\ ipc' = "returned" /\ iPath' = "error"
    /\ UNCHANGED <<iWebsite, iFindings, iFetchCalls, otherThanIntel>>

NextIntel ==
    \/ ExtractFetch
    \/ ExtractNotOk
    \/ ExtractBody
    \/ ExtractTimeout
    \/ ExtractFetchError

SpecIntel == InitIntel /\ [][NextIntel]_vars

\* the weights of the categories a snapshot holds a fact for
weightsFound(r) ==
    weight(~IsNull(r.technology.cms), 15)
    + weight(Len(Val(r.technology.analytics)) > 0, 10)
    + weight(r.contactMethods.hasContactForm, 15)
    + weight(r.contactMethods.hasLiveChat, 10)
    + weight(r.contactMethods.hasBookingSystem, 15)
    + weight(~IsNull(r.businessIntel.employeeCount), 15)
    + weight(~IsNull(r.businessIntel.foundedYear), 10)
    + weight(Len(Val(r.businessIntel.certifications)) > 0, 10)

\* C13: on a successful fetch the completeness score equals the sum of the
\* weights of exactly the fact categories found (CMS 15, analytics 10, contact
\* form 15, live chat 10, booking 15, employee count 15, founded year 10,
\* certifications 10), capped at 100; CMS, contact form and booking system
\* alone give 45.
C13_CompletenessSumsFound ==
    iPath = "body" =>
        Val(iResult).dataQuality.completeness = Min(100, weightsFound(Val(iResult)))

\* the fetch of C13 that yields CMS, contact form and booking system only
C13_FortyFive ==
    /\ iPath = "body"
    /\ Val(iResult).technology.cms = Some("WordPress")
    /\ Val(iResult).technology.bookingSystems = Some(<<"Calendly">>)
    /\ Val(iResult).contactMethods.hasContactForm
    /\ weightsFound(Val(iResult)) = 45
    /\ Val(iResult).dataQuality.completeness = 45

\* C14: extractWebsiteIntelligence never throws to its caller and performs
\* exactly one HTTP GET; on a non-2xx response, a network error or a timeout
\* it returns the all-empty snapshot with completeness 0 whose findings log
\* has an entry describing the failure.
C14_OneGetEmptyOnFailure ==
    /\ ipc \in {"idle", "start", "fetching", "returned"}
    /\ ipc = "returned" => iFetchCalls = 1 /\ ~IsNull(iResult)
    /\ iPath \in {"notOk", "timeout", "error"} =>
          LET r == Val(iResult)
          IN /\ r.technology = [cms |-> Null, analytics |-> Null,
                                chatWidgets |-> Null, bookingSystems |-> Null]
             /\ ~r.contactMethods.hasContactForm /\ ~r.contactMethods.hasLiveChat
             /\ ~r.contactMethods.hasBookingSystem /\ ~r.contactMethods.hasPhoneClick
             /\ r.businessIntel = [employeeCount |-> Null, foundedYear |-> Null,
                                   certifications |-> Null, serviceAreas |-> Null]
             /\ r.dataQuality.completeness = 0
             /\ \E i \in 1..Len(r.rawFindings) :
                   IF iPath = "notOk" THEN StartsWith(r.rawFindings[i], "HTTP ")
                   ELSE StartsWith(r.rawFindings[i], "Error: ")

\* a 404 answered with the empty snapshot and its log entry
C14_Witness ==
    /\ ipc = "returned" /\ iPath = "notOk" /\ iFetchCalls = 1
    /\ Val(iResult).rawFindings = <<"Fetching https://acme.com...", "HTTP 404: Not Found">>

\* a network error and a timeout answered the same way
C14_WitnessError ==
    /\ ipc = "returned" /\ iPath = "error" /\ iWebsite = "my site.com"
    /\ Val(iResult).rawFindings[2] = "Error: fetch failed"
C14_WitnessTimeout ==
    /\ ipc = "returned" /\ iPath = "timeout"
    /\ Val(iResult).rawFindings[2] = "Error: This operation was aborted"

(***************************************************************************)
(* googlePlaces-free-enrichment.ts: runPlacesSearch.  The local variables  *)
(* of the function are gathered in a record st: pc the await it is parked  *)
(* at, loop the variables of the two for loops (page, nextToken, results,  *)
(* pageToken the next_page_token of the current page, i counted from 1),   *)
(* cand those of the current candidate, totals the four counters, fetches  *)
(* the calls of googleTextSearchPage, upserted the last record handed to   *)
(* upsertProspect, last how the previous candidate ended.  The operators   *)
(* below run the synchronous code from one await to the next.              *)
(***************************************************************************)
maxPages == OrElse(rConfig.pages, 3)

\* the final summary
report(st) == [st EXCEPT !.pc = "reported"]

\* await googleTextSearchPage(..., nextToken); delayed tells that the call is
\* made from the continuation of the 2.5 s timer
fetchPage(st) ==
    [st EXCEPT !.pc = "search",
               !.fetches = Append(@, [page |-> st.loop.page,
                                      pagetoken |-> st.loop.nextToken,
                                      delayed |-> st.pc = "delay"])]

\* page < maxPages
loopTest(st) == IF st.loop.page < maxPages THEN fetchPage(st) ELSE report(st)

noDetails == [website |-> Null, formatted_phone_number |-> Null,
              business_status |-> Null]
\* { ...base, ...details }: base has no website and no phone
merge(base, details) ==
    [place_id |-> base.place_id, name |-> base.name, rating |-> base.rating,
     user_ratings_total |-> base.user_ratings_total,
     business_status |-> IF IsNull(details.business_status)
                         THEN base.business_status ELSE details.business_status,
     website |-> details.website,
     formatted_phone_number |-> details.formatted_phone_number]

\* the same without totalSeen++
beginCandidateUncounted(st, i) ==
    [st EXCEPT !.pc = "details", !.loop.i = i,
               !.cand = [merged |-> merge(st.loop.results[i], noDetails),
                         detailsFailed |-> FALSE, websiteVerification |-> Null,
                         bestEmail |-> Null, socialVerification |-> Null,
                         intelligence |-> Null, scored |-> Null,
                         calls |-> <<"googlePlaceDetails">>, logged |-> <<>>]]
\* totalSeen++, base, and the call of googlePlaceDetails
beginCandidate(st, i) ==
    [st EXCEPT !.pc = "details", !.loop.i = i, !.totals.totalSeen = @ + 1,
               !.cand = [merged |-> merge(st.loop.results[i], noDetails),
                         detailsFailed |-> FALSE, websiteVerification |-> Null,
                         bestEmail |-> Null, socialVerification |-> Null,
                         intelligence |-> Null, scored |-> Null,
                         calls |-> <<"googlePlaceDetails">>, logged |-> <<>>]]

\* after the inner loop: break without a token, else wait 2.5 s; the first
\* definition goes on to the next page without waiting
endOfPageNoDelay(st) ==
    IF IsNull(st.loop.pageToken) THEN report(st)
    ELSE loopTest([st EXCEPT !.loop.nextToken = st.loop.pageToken,
                             !.loop.page = @ + 1])
endOfPage(st) ==
    IF IsNull(st.loop.pageToken) THEN report(st)
    ELSE [st EXCEPT !.pc = "delay", !.loop.nextToken = st.loop.pageToken]

nextCandidate(st) ==
    IF st.loop.i < Len(st.loop.results) THEN beginCandidate(st, st.loop.i + 1)
    ELSE endOfPage(st)

\* the candidate is done (saved, or continue after a skip)
finish(st, outcome) ==
    nextCandidate([st EXCEPT !.last = Some([outcome |-> outcome, cand |-> st.cand,
                                            page |-> st.loop.page,
                                            i |-> st.loop.i])])

\* an awaited call of a collaborator
called(st, name, pc) == [st EXCEPT !.pc = pc, !.cand.calls = Append(@, name)]

\* websiteVerification?.isValid
verdictValid(v) == IF IsNull(v) THEN FALSE ELSE Val(v).isValid

\* the record handed to upsertProspect
prospect(st, scored) ==
    LET merged == st.cand.merged
        v == st.cand.websiteVerification
    IN [place_id |-> merged.place_id, name |-> merged.name,
        phone |-> merged.formatted_phone_number, website |-> merged.website,
        rating |-> merged.rating, user_ratings_count |-> merged.user_ratings_total,
        automation_need_score |-> scored.score,
        score_reasons |-> scored.reasons,
        website_verified |-> IF IsNull(v) THEN Null ELSE Some(Val(v).isValid),
        website_trust_score |-> IF IsNull(v) THEN Null ELSE Some(Val(v).trustScore),
        primary_email |-> st.cand.bestEmail,
        cms |-> IF IsNull(st.cand.intelligence) THEN Null
                ELSE Val(st.cand.intelligence).cms,
        linkedin_url |-> IF IsNull(st.cand.socialVerification) THEN Null
                         ELSE Val(st.cand.socialVerification).linkedin,
        page_index |-> st.loop.page, result_rank |-> st.loop.i]

\* typeof config.minScore === "number" && scored.score < config.minScore; the
\* first definition compares the other way round
belowMinimumInverted(score) ==
    IF IsNull(rConfig.minScore) THEN FALSE ELSE score > Val(rConfig.minScore)
belowMinimum(score) ==
    IF IsNull(rConfig.minScore) THEN FALSE ELSE score < Val(rConfig.minScore)

\* the score filter, then the call of upsertProspect; the first definition
\* does not await the upsert
scoreDecisionNoAwait(st, scored) ==
    IF belowMinimum(scored.score)
    THEN finish([st EXCEPT !.cand.scored = Some(scored),
                           !.totals.totalSkippedScore = @ + 1], "skippedScore")
    ELSE finish([called(st, "upsertProspect", st.pc)
                    EXCEPT !.cand.scored = Some(scored),
                           !.totals.totalInserted = @ + 1], "saved")
scoreDecision(st, scored) ==
    IF belowMinimum(scored.score)
    THEN finish([st EXCEPT !.cand.scored = Some(scored),
                           !.totals.totalSkippedScore = @ + 1], "skippedScore")
    ELSE [called(st, "upsertProspect", "upsert")
            EXCEPT !.cand.scored = Some(scored),
                   !.upserted = Some(prospect(st, scored))]
scoreStep(st) ==
    scoreDecision(st, computeAutomationNeedScoreDetailed(
        [rating |-> st.cand.merged.rating,
         user_ratings_total |-> st.cand.merged.user_ratings_total,
         website |-> st.cand.merged.website,
         phone |-> st.cand.merged.formatted_phone_number,
         business_status |-> st.cand.merged.business_status]))

\* the guard of an enrichment that needs a valid website; the first
\* definition leaves the verdict out
needsValidSiteAnyVerdict(enabled, cand) == enabled /\ hasWebsite(cand.merged.website)
needsValidSite(enabled, cand) ==
    /\ enabled
    /\ hasWebsite(cand.merged.website)
    /\ verdictValid(cand.websiteVerification)

intelligenceStep(st) ==
    IF needsValidSite(rConfig.enrichIntelligence, st.cand)
    THEN called(st, "extractWebsiteIntelligence", "intelligence")
    ELSE scoreStep(st)
socialStep(st) ==
    IF rConfig.enrichSocial THEN called(st, "verifySocialProfiles", "social")
    ELSE intelligenceStep(st)
emailStep(st) ==
    IF needsValidSite(rConfig.enrichEmails, st.cand)
    THEN called(st, "discoverEmails", "emails")
    ELSE socialStep(st)

\* if (config.skipSuspicious && websiteVerification.isLikelySpam) continue; the
\* first definition never skips
skipsSpamNever(v) == FALSE
skipsSpam(v) == rConfig.skipSuspicious /\ v.isLikelySpam

verified(st, v) ==
    IF skipsSpam(v)
    THEN finish([st EXCEPT !.cand.websiteVerification = Some(v),
                           !.totals.totalSkippedSpam = @ + 1], "skippedSpam")
    ELSE emailStep([st EXCEPT !.cand.websiteVerification = Some(v)])
verificationStep(st) ==
    IF hasWebsite(st.cand.merged.website)
    THEN verified(st, quickVerifyWebsite(st.cand.merged.website))
    ELSE emailStep(st)

\* the details lookup returned details, or threw and details stays {}
detailsSettled(st, details, failed) ==
    verificationStep([st EXCEPT !.cand.merged = merge(st.loop.results[st.loop.i],
                                                      details),
                                !.cand.detailsFailed = failed])

(***************************************************************************)
(* SpecRun: one call of runPlacesSearch                                    *)
(***************************************************************************)
RunConfigs ==
    {[skipSuspicious |-> sk, enrichEmails |-> em, enrichSocial |-> so,
      enrichIntelligence |-> it, minScore |-> ms, pages |-> pg] :
        sk \in BOOLEAN, em \in BOOLEAN, so \in BOOLEAN, it \in BOOLEAN,
        ms \in {Null, Some(40)}, pg \in {Null, Some(2)}}
\* the results of one search page
SearchResultLists ==
    {<<>>,
     <<[place_id |-> "p1", name |-> "Acme Roofing", rating |-> Some(32),
        user_ratings_total |-> Some(3), business_status |-> Some("OPERATIONAL")],
       [place_id |-> "p2", name |-> "Best Deals", rating |-> Some(48),
        user_ratings_total |-> Some(200), business_status |-> Null]>>}
\* json.result of the details lookup ({} when its status is not OK)
DetailsResults ==
    {noDetails,
     [website |-> Some("https://acme.com"),
      formatted_phone_number |-> Some("555-0100"), business_status |-> Null],
     [website |-> Some("bit.ly/promo"), formatted_phone_number |-> Null,
      business_status |-> Some("OPERATIONAL")],
     [website |-> Some("my site.com"), formatted_phone_number |-> Null,
      business_status |-> Null],
     [website |-> Some(" "), formatted_phone_number |-> Some("555-0199"),
      business_status |-> Null]}

otherThanRun ==
    <<trustVars, confVars, emailVars, socialVars, scoreVars, intelVars>>

current ==
    [pc |-> rpc, loop |-> rLoop, cand |-> rCand, totals |-> rTotals,
     fetches |-> rFetches, upserted |-> rUpserted, last |-> rLast]
becomes(st) ==
    /\ rpc' = st.pc /\ rLoop' = st.loop /\ rCand' = st.cand
    /\ rTotals' = st.totals /\ rFetches' = st.fetches
    /\ rUpserted' = st.upserted /\ rLast' = st.last
    /\ UNCHANGED <<rConfig, otherThanRun>>

InitRun ==
    /\ rpc = "start"
    /\ rConfig \in RunConfigs
    /\ rLoop = [page |-> 0, nextToken |-> Null, results |-> <<>>,
                pageToken |-> Null, i |-> 0]
    /\ rCand = Null
    /\ rTotals = [totalSeen |-> 0, totalInserted |-> 0, totalSkippedSpam |-> 0,
                  totalSkippedScore |-> 0]
    /\ rFetches = <<>> /\ rUpserted = Null /\ rLast = Null
    /\ TrustIdle /\ ConfIdle /\ EmailIdle /\ SocialIdle /\ ScoreIdle /\ IntelIdle

\* console.error / console.warn while a candidate is being processed
logs(st, message) == [st EXCEPT !.cand.logged = Append(@, message)]

\* up to the first await
StartRun == rpc = "start" /\ becomes(loopTest(current))

\* googleTextSearchPage returned
SearchPageReturns ==
    /\ rpc = "search"
    /\ \E results \in SearchResultLists,
          token \in {Null, Some("token" \o ToString(rLoop.page + 1))} :
          \E st \in {[current EXCEPT !.loop.results = results,
                                     !.loop.pageToken = token, !.loop.i = 0]} :
             becomes(IF Len(results) = 0 THEN report(st) ELSE beginCandidate(st, 1))

\* rLast tells how the previous candidate ended; it is kept until the details
\* lookup of the next candidate settles
forget(st) == [st EXCEPT !.last = Null]

\* googleTextSearchPage threw (fetch rejected, !res.ok, invalid JSON): nothing
\* in runPlacesSearch catches it
SearchPageFails ==
    /\ rpc = "search"
    /\ rpc' = "thrown"
    /\ UNCHANGED <<rConfig, rLoop, rCand, rTotals, rFetches, rUpserted, rLast,
                   otherThanRun>>

DetailsReturn ==
    /\ rpc = "details"
    /\ \E details \in DetailsResults :
          becomes(detailsSettled(forget(current), details, FALSE))

\* googlePlaceDetails threw: caught and logged
\* the first definition has no catch
DetailsFailPropagates ==
    /\ rpc = "details"
    /\ rpc' = "thrown"
    /\ UNCHANGED <<rConfig, rLoop, rCand, rTotals, rFetches, rUpserted, rLast,
                   otherThanRun>>
DetailsFail ==
    /\ rpc = "details"
    /\ becomes(detailsSettled(logs(forget(current), "Failed to get details"),
                              noDetails, TRUE))

EmailsReturn ==
    /\ rpc = "emails"
    /\ \E best \in {Null, Some("info@acme.com")} :
          becomes(socialStep([current EXCEPT !.cand.bestEmail = best]))
EmailsFail ==
    /\ rpc = "emails"
    /\ becomes(socialStep(logs(current, "Email discovery failed")))

SocialReturn ==
    /\ rpc = "social"
    /\ \E linkedin \in {Some("https://www.linkedin.com/company/acme")} :
          becomes(intelligenceStep(
              [current EXCEPT !.cand.socialVerification =
                                  Some([linkedin |-> linkedin])]))
SocialFail ==
    /\ rpc = "social"
    /\ becomes(intelligenceStep(logs(current, "Social verification failed")))

IntelligenceReturn ==
    /\ rpc = "intelligence"
    /\ \E cms \in {Some("WordPress")} :
          becomes(scoreStep([current EXCEPT !.cand.intelligence =
                                                Some([cms |-> cms])]))
IntelligenceFail ==
    /\ rpc = "intelligence"
    /\ becomes(scoreStep(logs(current, "Intelligence extraction failed")))

\* upsertProspect resolved, having logged the error if there was one; the
\* first definition lets the error end the run
upsertLogged(st, error) ==
    IF error THEN logs(st, "Supabase upsert error") ELSE st
upsertSettledThrowing(st, error) ==
    IF error THEN [upsertLogged(st, error) EXCEPT !.pc = "thrown"]
    ELSE finish([st EXCEPT !.totals.totalInserted = @ + 1,
                           !.upserted = Null], "saved")
upsertSettled(st, error) ==
    finish([upsertLogged(st, error) EXCEPT !.totals.totalInserted = @ + 1,
                                           !.upserted = Null], "saved")
UpsertSettles ==
    /\ rpc = "upsert"
    /\ \E error \in BOOLEAN : becomes(upsertSettled(current, error))

\* the 2.5 s timer fired: page++ and the loop test
DelayElapsed ==
    rpc = "delay" /\ becomes(loopTest([current EXCEPT !.loop.page = @ + 1]))

NextRun ==
    \/ StartRun
    \/ SearchPageReturns
    \/ SearchPageFails
    \/ DetailsReturn
    \/ DetailsFail
    \/ EmailsReturn
    \/ EmailsFail
    \/ SocialReturn
    \/ SocialFail
    \/ IntelligenceReturn
    \/ IntelligenceFail
    \/ UpsertSettles
    \/ DelayElapsed

SpecRun == InitRun /\ [][NextRun]_vars

(***************************************************************************)
(* Claims about runPlacesSearch                                            *)
(***************************************************************************)
\* the candidates the state tells about: the one in progress and the one that
\* ended last
inProgress == rpc \in {"details", "emails", "social", "intelligence", "upsert"}
enriching == rpc \in {"emails", "social", "intelligence", "upsert"}
ended(outcome) == IF IsNull(rLast) THEN FALSE ELSE Val(rLast).outcome = outcome
likelySpam(cand) ==
    IF IsNull(cand.websiteVerification) THEN FALSE
    ELSE Val(cand.websiteVerification).isLikelySpam
\* a candidate has just ended in this step
justEnded(outcome) == inProgress /\ ended(outcome)'

\* with skipSuspicious, no candidate with a likely-spam verdict is past the
\* verification, and one that ended with such a verdict ended as skipped for
\* spam, with the details lookup as its only call
spamAborted ==
    /\ enriching => ~likelySpam(rCand)
    /\ ~IsNull(rLast) =>
          /\ likelySpam(Val(rLast).cand) => Val(rLast).outcome = "skippedSpam"
          /\ Val(rLast).outcome = "skippedSpam" =>
                /\ likelySpam(Val(rLast).cand)
                /\ Val(rLast).cand.calls = <<"googlePlaceDetails">>
\* the step that skips for spam adds one to totalSkippedSpam and nothing to the
\* other two outcome counters
spamCounted ==
    IF justEnded("skippedSpam")
    THEN /\ rTotals'.totalSkippedSpam = rTotals.totalSkippedSpam + 1
         /\ rTotals'.totalInserted = rTotals.totalInserted
         /\ rTotals'.totalSkippedScore = rTotals.totalSkippedScore
    ELSE rTotals'.totalSkippedSpam = rTotals.totalSkippedSpam
trustOf(prospectRecord) ==
    IF IsNull(prospectRecord.website_trust_score) THEN 100
    ELSE Val(prospectRecord.website_trust_score)

\* C15 as stated: with skipSuspicious enabled a candidate whose verdict is
\* likely-spam is aborted (no enrichment, no upsert, totalSkippedSpam + 1), and
\* consequently no record handed to upsertProspect in such a run has a website
\* trust score below 30.
C15_SpamSkippedNoLowTrust ==
    /\ [](rpc # "idle" /\ rConfig.skipSuspicious => spamAborted)
    /\ [][rConfig.skipSuspicious => spamCounted]_vars
    /\ [](rpc = "upsert" /\ rConfig.skipSuspicious =>
             trustOf(Val(rUpserted)) >= 30)

\* C15 amended: the abort and the counter are as stated; a record handed to
\* upsertProspect in such a run has no trust score (no website), or a trust
\* score of at least 30, or the trust score 0 of a blank or unparseable website,
\* whose verdict is not likely-spam.
C15_SpamSkipped ==
    /\ [](rpc # "idle" /\ rConfig.skipSuspicious => spamAborted)
    /\ [][rConfig.skipSuspicious => spamCounted]_vars
    /\ [](rpc = "upsert" /\ rConfig.skipSuspicious =>
             \/ trustOf(Val(rUpserted)) >= 30
             \/ /\ trustOf(Val(rUpserted)) = 0
                /\ rCand.websiteVerification
                       \in {Some(invalidUrlVerdict), Some(noWebsiteVerdict)})

\* the second candidate of a page is looked up after the first was skipped for
\* spam under skipSuspicious
C15_Witness ==
    /\ rpc = "details" /\ rConfig.skipSuspicious /\ ended("skippedSpam")
    /\ rLoop.i = 2 /\ rTotals.totalSkippedSpam = 1
\* an unparseable website is handed to upsertProspect with trust score 0
C15_WitnessUnparseable ==
    /\ rpc = "upsert" /\ rConfig.skipSuspicious
    /\ Val(rUpserted).website = Some("my site.com")
    /\ Val(rUpserted).website_trust_score = Some(0)

\* what the calls of one candidate need
enrichmentGuarded(cand) ==
    /\ InSeq("discoverEmails", cand.calls) =>
          /\ rConfig.enrichEmails
          /\ hasWebsite(cand.merged.website)
          /\ verdictValid(cand.websiteVerification)
    /\ InSeq("extractWebsiteIntelligence", cand.calls) =>
          /\ rConfig.enrichIntelligence
          /\ hasWebsite(cand.merged.website)
          /\ verdictValid(cand.websiteVerification)

\* C16: discoverEmails is invoked for a candidate only if enrichEmails is
\* enabled, the merged record has a website and the verdict has isValid = TRUE;
\* extractWebsiteIntelligence only if enrichIntelligence is enabled, a website
\* exists and the verdict has isValid = TRUE.
C16_EnrichmentNeedsValidSite ==
    /\ ~IsNull(rCand) => enrichmentGuarded(rCand)
    /\ ~IsNull(rLast) => enrichmentGuarded(Val(rLast).cand)

\* both enrichments were invoked for a candidate with a valid website
C16_Witness ==
    /\ rpc = "upsert"
    /\ InSeq("discoverEmails", rCand.calls)
    /\ InSeq("extractWebsiteIntelligence", rCand.calls)
    /\ verdictValid(rCand.websiteVerification)
\* with both enabled, a candidate with an invalid website reaches the upsert
\* with neither invoked
C16_WitnessInvalid ==
    /\ rpc = "upsert" /\ rConfig.enrichEmails /\ rConfig.enrichIntelligence
    /\ hasWebsite(rCand.merged.website)
    /\ ~verdictValid(rCand.websiteVerification)
    /\ ~InSeq("discoverEmails", rCand.calls)
    /\ ~InSeq("extractWebsiteIntelligence", rCand.calls)

scoreOf(cand) == IF IsNull(cand.scored) THEN 100 ELSE Val(cand.scored).score
\* a candidate scored below the minimum ended as skipped for score without a
\* call of upsertProspect, and only such a candidate ends that way
scoreFiltered ==
    ~IsNull(rLast) =>
        /\ scoreOf(Val(rLast).cand) < Val(rConfig.minScore) =>
              /\ Val(rLast).outcome = "skippedScore"
              /\ ~InSeq("upsertProspect", Val(rLast).cand.calls)
        /\ Val(rLast).outcome = "skippedScore" =>
              scoreOf(Val(rLast).cand) < Val(rConfig.minScore)
\* the step that skips for score adds one to totalSkippedScore and nothing to
\* the other two outcome counters
scoreCounted ==
    IF justEnded("skippedScore")
    THEN /\ rTotals'.totalSkippedScore = rTotals.totalSkippedScore + 1
         /\ rTotals'.totalInserted = rTotals.totalInserted
         /\ rTotals'.totalSkippedSpam = rTotals.totalSkippedSpam
    ELSE rTotals'.totalSkippedScore = rTotals.totalSkippedScore
minScoreConfigured == IF rpc = "idle" THEN FALSE ELSE ~IsNull(rConfig.minScore)

\* C17: with a minimum score configured, a candidate whose score is below the
\* minimum is never handed to upsertProspect and totalSkippedScore increases by
\* one; every record that is handed over has score >= the minimum.
C17_MinScoreFilter ==
    /\ [](minScoreConfigured => scoreFiltered)
    /\ [](minScoreConfigured /\ enriching => scoreOf(rCand) >= Val(rConfig.minScore))
    /\ [][minScoreConfigured => scoreCounted]_vars
    /\ [](minScoreConfigured /\ rpc = "upsert" =>
             Val(rUpserted).automation_need_score >= Val(rConfig.minScore))

\* a candidate was skipped for its score and the next one is being looked up
C17_Witness ==
    /\ minScoreConfigured /\ rpc = "details" /\ ended("skippedScore")
    /\ rTotals.totalSkippedScore = 1 /\ rTotals.totalInserted = 0
\* a candidate at or above the minimum is handed to upsertProspect
C17_WitnessSaved ==
    /\ minScoreConfigured /\ rpc = "upsert"
    /\ Val(rUpserted).automation_need_score >= Val(rConfig.minScore)

\* a candidate whose details lookup threw carries the fields of its search
\* result and nothing else
searchFieldsOnly(cand, result) ==
    cand.detailsFailed =>
        /\ cand.merged = merge(result, noDetails)
        /\ IsNull(cand.merged.website)
        /\ IsNull(cand.merged.formatted_phone_number)
        /\ IsNull(cand.websiteVerification)
        /\ InSeq("Failed to get details", cand.logged)
detailsFailureSurvived ==
    /\ enriching => searchFieldsOnly(rCand, rLoop.results[rLoop.i])
    /\ rpc = "upsert" /\ rCand.detailsFailed =>
          /\ Val(rUpserted).place_id = rLoop.results[rLoop.i].place_id
          /\ Val(rUpserted).name = rLoop.results[rLoop.i].name
          /\ Val(rUpserted).rating = rLoop.results[rLoop.i].rating
          /\ IsNull(Val(rUpserted).website) /\ IsNull(Val(rUpserted).phone)
          /\ ~IsNull(rCand.scored)
    /\ ~IsNull(rLast) =>
          /\ Val(rLast).cand.detailsFailed =>
                Val(rLast).outcome \in {"saved", "skippedScore"}
          \* the next candidate of the page is looked up
          /\ rpc = "details" /\ Val(rLast).page = rLoop.page =>
                rLoop.i = Val(rLast).i + 1
          /\ Val(rLast).i < Len(rLoop.results) /\ Val(rLast).page = rLoop.page =>
                rpc = "details"
\* the run is thrown out of only by a search-page fetch, with nothing else
\* changed, and nothing happens after that
searchFailureAborts ==
    /\ rpc' = "thrown" =>
          /\ rpc = "search"
          /\ UNCHANGED <<rLoop, rCand, rTotals, rFetches, rUpserted, rLast>>
    /\ rpc # "thrown"
    /\ rpc = "details" => rpc' \in {"details", "emails", "social", "intelligence",
                                    "upsert", "delay", "reported"}

\* C18: a thrown error of the details lookup is caught, the candidate goes on
\* through verification, scoring and persistence with the search-result fields
\* only, and later candidates are still processed; a failure of a search-page
\* fetch propagates out of runPlacesSearch and no further candidate is
\* processed.
C18_DetailsCaughtSearchFatal ==
    /\ [](rpc # "idle" => detailsFailureSurvived)
    /\ [][searchFailureAborts]_vars

\* the second candidate is looked up after the first, whose details lookup
\* threw, was saved
C18_Witness ==
    /\ rpc = "details" /\ rLoop.i = 2 /\ ended("saved")
    /\ Val(rLast).cand.detailsFailed /\ Val(rLast).i = 1
\* the fetch of the second page threw after two candidates were seen
C18_WitnessThrown ==
    rpc = "thrown" /\ rLoop.page = 1 /\ rTotals.totalSeen = 2

\* the state after the upsert settled is the one a successful upsert leads to,
\* but for the logged error
asAfterSuccess(ok) ==
    /\ rpc' = ok.pc /\ rLoop' = ok.loop /\ rTotals' = ok.totals
    /\ rFetches' = ok.fetches /\ rUpserted' = ok.upserted
    /\ Val(rLast').outcome = "saved"
    /\ [Val(rLast').cand EXCEPT !.logged = <<>>]
           = [Val(ok.last).cand EXCEPT !.logged = <<>>]
    /\ rpc' = "details" => rCand' = ok.cand
upsertSurvived ==
    rpc = "upsert" =>
        /\ rpc' \in {"details", "delay", "reported"}
        /\ rTotals'.totalInserted = rTotals.totalInserted + 1
        /\ rLoop.i < Len(rLoop.results) => rpc' = "details" /\ rLoop'.i = rLoop.i + 1
        /\ rLoop.i = Len(rLoop.results) /\ ~IsNull(rLoop.pageToken) => rpc' = "delay"
        /\ asAfterSuccess(upsertSettled(current, FALSE))

\* C19: a failure of the upsert for one candidate is logged and does not abort
\* the run: runPlacesSearch goes on with the remaining candidates and pages
\* exactly as after a successful upsert.
C19_UpsertFailureSurvived == [][upsertSurvived]_vars

upsertErrorLogged ==
    IF IsNull(rLast) THEN FALSE
    ELSE InSeq("Supabase upsert error", Val(rLast).cand.logged)
\* the next candidate is looked up after an upsert that failed
C19_Witness ==
    /\ rpc = "details" /\ upsertErrorLogged /\ ended("saved")
    /\ rLoop.i = 2 /\ rTotals.totalInserted = 1
\* the run waits for the next page after the upsert of the last candidate of
\* a page failed
C19_WitnessNextPage ==
    /\ rpc = "delay" /\ upsertErrorLogged /\ ended("saved")
    /\ rLoop.i = Len(rLoop.results)

\* the pages fetched so far are pages 0, 1, ... in order and at most maxPages;
\* the first is fetched without a token and without waiting
pagesInOrder ==
    /\ Len(rFetches) <= maxPages
    /\ Len(rFetches) <= 3
    /\ \A k \in 1..Len(rFetches) : rFetches[k].page = k - 1
    /\ Len(rFetches) > 0 =>
          IsNull(rFetches[1].pagetoken) /\ ~rFetches[1].delayed
\* a further page is fetched only when the timer fires, with the token that
\* the page before it returned, and that page had results
nextPageFetch ==
    Len(rFetches') > Len(rFetches) /\ Len(rFetches) > 0 =>
        /\ rpc = "delay"
        /\ Len(rFetches') = Len(rFetches) + 1
        /\ ~IsNull(rLoop.pageToken)
        /\ rFetches'[Len(rFetches')].pagetoken = rLoop.pageToken
        /\ rFetches'[Len(rFetches')].delayed
        /\ Len(rLoop.results) > 0
\* a page without results ends the run at once, and nothing happens after the
\* report
reportEndsRun ==
    /\ rpc = "search" /\ rpc' # "thrown" /\ Len(rLoop'.results) = 0 =>
          rpc' = "reported" /\ rTotals' = rTotals
    /\ rpc # "reported"
lastPage == inProgress /\ IsNull(rLoop.pageToken)
\* when the last candidate of a page without a token is done the run reports,
\* in the same step; until then no page is fetched
lastPageEndsRun ==
    lastPage =>
        /\ rFetches' = rFetches
        /\ rpc' \in {"details", "emails", "social", "intelligence", "upsert",
                      "reported"}
        /\ ~IsNull(rLast') /\ rLoop.i = Len(rLoop.results) => rpc' = "reported"
        /\ rpc' = "reported" => rLoop.i = Len(rLoop.results) /\ ~IsNull(rLast')
\* how far the run is: every step takes it further, and the pages, the
\* candidates of a page and the stages of a candidate are bounded
stage ==
    CASE rpc = "start" -> 0 [] rpc = "search" -> 1 [] rpc = "details" -> 2
      [] rpc = "emails" -> 3 [] rpc = "social" -> 4 [] rpc = "intelligence" -> 5
      [] rpc = "upsert" -> 6 [] rpc = "delay" -> 7 [] OTHER -> 99
candidateIndex == IF rpc \in {"start", "search"} THEN 0 ELSE rLoop.i
progress ==
    IF stage = 99 THEN rLoop.page * 100 + 99
    ELSE rLoop.page * 100 + candidateIndex * 10 + stage

\* C20: at most `pages` (default 3) search pages are fetched, in order; every
\* fetch after the first uses the token returned by the page before it and
\* starts only after the 2.5 s delay; no page is fetched after a page with zero
\* results or without a token, and the run then reports its counters and
\* terminates (every step of the run takes it further towards the report, which
\* follows the last candidate of such a page with no await in between).
C20_Pagination ==
    /\ [](rpc # "idle" => pagesInOrder)
    /\ [][nextPageFetch /\ reportEndsRun /\ lastPageEndsRun]_vars
    /\ [][progress' > progress]_vars
    /\ [](rpc # "idle" => progress <= 3 * 100 + 99)

\* the third page of a run with the default number of pages is being fetched
\* with the token of the second
C20_Witness ==
    /\ rpc = "search" /\ IsNull(rConfig.pages) /\ Len(rFetches) = 3
    /\ rFetches[3].pagetoken = Some("token2") /\ rFetches[3].delayed
\* a run limited to two pages reports after the second although it returned
\* a token
C20_WitnessLimit ==
    /\ rpc = "reported" /\ rConfig.pages = Some(2) /\ Len(rFetches) = 2
    /\ ~IsNull(rLoop.pageToken) /\ rLoop.page = 2

\* the candidates seen and not yet skipped or saved
unfinished ==
    rTotals.totalSeen - rTotals.totalInserted - rTotals.totalSkippedSpam
        - rTotals.totalSkippedScore
\* the call in flight, the last one made for the candidate in progress
inFlight == IF inProgress /\ rpc # "search" THEN rCand.calls[Len(rCand.calls)] ELSE ""
awaited ==
    CASE rpc = "details" -> "googlePlaceDetails"
      [] rpc = "emails" -> "discoverEmails"
      [] rpc = "social" -> "verifySocialProfiles"
      [] rpc = "intelligence" -> "extractWebsiteIntelligence"
      [] rpc = "upsert" -> "upsertProspect"
      [] OTHER -> ""
\* at most one candidate is unfinished, it is the one whose call is awaited,
\* and every call made for it but the last has returned
oneCandidate ==
    /\ unfinished \in {0, 1}
    /\ unfinished = 1 <=> inProgress
    /\ inProgress => inFlight = awaited
\* a details lookup starts after a page arrived or after the candidate before
\* it was skipped or its upsert returned
lookupAfterEnd ==
    rpc' = "details" /\ <<rLoop'.page, rLoop'.i>> # <<rLoop.page, rLoop.i>> =>
        \/ rpc = "search" /\ rLoop'.i = 1
        \/ /\ inProgress /\ ~IsNull(rLast')
           /\ Val(rLast').page = rLoop.page /\ Val(rLast').i = rLoop.i
           /\ rLoop'.i = rLoop.i + 1 /\ rLoop'.page = rLoop.page
           /\ Val(rLast').outcome \in {"skippedSpam", "skippedScore", "saved"}
           /\ Val(rLast').outcome = "saved" <=> rpc = "upsert"
           /\ InSeq("upsertProspect", Val(rLast').cand.calls) <=> rpc = "upsert"

\* C21: candidates are processed strictly one at a time: the details lookup of
\* candidate k+1 starts only after candidate k was skipped or its upsert call
\* returned, and no calls for two different candidates are in flight at once.
C21_OneCandidateAtATime ==
    /\ [](rpc # "idle" => oneCandidate)
    /\ [][lookupAfterEnd]_vars

\* the second candidate is looked up after the upsert of the first returned
C21_Witness ==
    /\ rpc = "details" /\ rLoop.i = 2 /\ ended("saved")
    /\ InSeq("upsertProspect", Val(rLast).cand.calls)
    /\ rTotals.totalSeen = 2 /\ rTotals.totalInserted = 1

(***************************************************************************)
(* Further claims about the trust classifier                               *)
(***************************************************************************)
\* the six penalties as the claim lists them: flag and points, and whether
\* the condition holds for the trimmed URL and its hostname
penaltyFlags ==
    <<"Known spam/redirect domain", "Suspicious TLD",
      "IP address instead of domain", "Excessive subdomains",
      "Contains suspicious keywords", "Unusually long URL">>
penaltyPoints == <<80, 30, 50, 20, 40, 15>>
penaltyHolds(k, cleanUrl, domain) ==
    CASE k = 1 -> isSpamDomain(domain)
      [] k = 2 -> \E t \in {".tk", ".ml", ".ga", ".cf", ".gq", ".xyz", ".top", ".win"} :
                      EndsWith(domain, t)
      [] k = 3 -> looksLikeIPv4(domain)
      [] k = 4 -> CountChar(domain, ".") >= 4
      [] k = 5 -> hasSuspiciousKeywords(cleanUrl)
      [] k = 6 -> Len(cleanUrl) > 200
RECURSIVE penaltySum(_, _, _)
penaltySum(k, cleanUrl, domain) ==
    IF k = 0 THEN 0
    ELSE penaltySum(k - 1, cleanUrl, domain)
         + (IF penaltyHolds(k, cleanUrl, domain) THEN penaltyPoints[k] ELSE 0)
RECURSIVE flagsExpected(_, _, _)
flagsExpected(k, cleanUrl, domain) ==
    IF k = 0 THEN <<>>
    ELSE flagsExpected(k - 1, cleanUrl, domain)
         \o (IF penaltyHolds(k, cleanUrl, domain) THEN <<penaltyFlags[k]>> ELSE <<>>)
penaltiesApplied(v, cleanUrl, domain) ==
    /\ v.trustScore = Max(0, 100 - penaltySum(6, cleanUrl, domain))
    /\ v.flags = flagsExpected(6, cleanUrl, domain)

C22_WitnessFloor ==
    /\ tpc = "quickDone" /\ TrustParseable
    /\ Val(tVerdict).trustScore = 0
    /\ Val(tVerdict).flags = <<"Known spam/redirect domain", "Suspicious TLD",
                               "IP address instead of domain",
                               "Excessive subdomains">>
\* a URL of exactly 200 characters is not flagged as long
C22_WitnessAtLimit ==
    /\ tpc = "quickDone" /\ TrustParseable
    /\ Len(Trim(Val(tUrl))) = 200 /\ Val(tVerdict).trustScore = 100

(***************************************************************************)
(* Further claims about discoverEmails                                     *)
(***************************************************************************)
\* C23: in discoverEmails an address taken from a mailto: link is tagged with
\* the source 'scraped-mailto' and so receives the +30 source bonus, not the
\* +20 of 'scraped-html'.
C23_MailtoTaggedHigher ==
    epc \in {"awaitingMX", "done", "best"} =>
        \A i \in 1..Len(eMailtos) :
            /\ eSources[eMailtos[i]] = "scraped-mailto"
            /\ sourceBonus(eSources[eMailtos[i]]) = 30

\* what the code does: every scraped address, from a mailto: link or not, is
\* tagged 'scraped-html'
C23_MailtoTaggedHtml ==
    /\ epc = "done" /\ Len(eMailtos) > 0
    /\ \A i \in 1..Len(eMailtos) : eSources[eMailtos[i]] = "scraped-html"
    /\ \A e \in DOMAIN eSources : eSources[e] # "scraped-mailto"

\* the part of an address after its first '@'
afterAt(email) ==
    SubSeq(email, Len(LocalPart(email)) + 2, Len(email))
patternsGenerated == epc \in {"awaitingMX", "done", "best"} /\ Len(ePatterns) > 0

\* C24: every address produced by generateEmailPatterns for a website with a
\* parseable domain is an address at that domain (its part after '@' equals the
\* website's hostname without a leading 'www.').
C24_PatternsAtWebsiteDomain ==
    patternsGenerated =>
        \A i \in 1..Len(ePatterns) :
            afterAt(ePatterns[i]) = Val(extractEmailDomain(eWebsite))

\* what the code does: every pattern is at the website's domain but the one
\* guessed at the first word of the business name followed by ".com"
C24_AllButNameDotCom ==
    patternsGenerated =>
        \A i \in 1..Len(ePatterns) :
            \/ afterAt(ePatterns[i]) = Val(extractEmailDomain(eWebsite))
            \/ ePatterns[i] = "contact@" \o cleanFirstWord(eName) \o ".com"
\* a business whose website is at another domain than its name suggests
C24_NameDotComElsewhere ==
    /\ patternsGenerated /\ eName = "Acme Roofing" /\ eWebsite = "https://other.org"
    /\ InSeq("contact@acme.com", ePatterns)
    /\ InSeq("acme@other.org", ePatterns)

(***************************************************************************)
(* Further claims about verifySocialProfiles                               *)
(***************************************************************************)
onWebsite(platform) ==
    \E i \in 1..Len(sWebsiteProfiles) : sWebsiteProfiles[i].platform = platform
\* the verify step of this platform has returned
stepReturned(platform) ==
    IF spc = "done" THEN TRUE
    ELSE IF spc \in {"linkedin", "facebook", "instagram"}
         THEN StageOf(spc) > StageOf(platform)
         ELSE FALSE
fixedConfidence == [linkedin |-> 85, facebook |-> 80, instagram |-> 75]
recordOf(platform) ==
    sProfiles[CHOOSE i \in 1..Len(sProfiles) : sProfiles[i].platform = platform]

\* urls are the platform's guesses in generation order, n the number of
\* existence checks made for it so far
probedInOrder(platform, urls, n) ==
    /\ spc = platform =>
          /\ sUrls = urls /\ sIdx = n + 1 /\ sIdx <= Len(urls)
          /\ ~alreadyFound(sProfiles, platform)
    /\ alreadyFound(sProfiles, platform) =>
          /\ n \in 1..Len(urls)
          /\ recordOf(platform).url = urls[n]
          /\ recordOf(platform).confidence = fixedConfidence[platform]
          /\ recordOf(platform).exists
    /\ (stepReturned(platform) /\ ~alreadyFound(sProfiles, platform)) => n = Len(urls)
    /\ (~stepReturned(platform) /\ spc # platform) => n = 0
\* an existence check is made only for the platform being verified, one at a
\* time
oneProbeAtATime ==
    \A pl \in {"linkedin", "facebook", "instagram"} :
        sProbes'[pl] # sProbes[pl] =>
            /\ spc = pl /\ sProbes'[pl] = sProbes[pl] + 1
            /\ ~alreadyFound(sProfiles, pl)

\* C25: for a platform not found on the website the guessed URLs are probed one
\* at a time in generation order; the first URL whose check succeeds becomes the
\* platform's record with confidence 85 (linkedin), 80 (facebook) or 75
\* (instagram) and no later URL of the platform is probed; if every check fails
\* the platform has no record.
C25_FirstExistingGuessWins ==
    /\ [](spc # "idle" =>
            \A pl \in {"linkedin", "facebook", "instagram"} :
                ~onWebsite(pl) => probedInOrder(pl, guessedUrls(pl, sName), sProbes[pl]))
    /\ [][oneProbeAtATime]_vars

\* linkedin's second guess exists, every instagram guess fails
C25_Witness ==
    /\ spc = "done" /\ ~onWebsite("linkedin") /\ ~onWebsite("instagram")
    /\ sProbes["linkedin"] = 2 /\ alreadyFound(sProfiles, "linkedin")
    /\ recordOf("linkedin").confidence = 85
    /\ recordOf("linkedin").url = generateLinkedInUrls(sName)[2]
    /\ Len(generateLinkedInUrls(sName)) > 2
    /\ ~alreadyFound(sProfiles, "instagram")
    /\ sProbes["instagram"] = Len(generateInstagramUrls(sName))
\* a facebook guess and an instagram guess are recorded with 80 and 75
C25_WitnessOthers ==
    /\ spc = "done" /\ ~onWebsite("facebook") /\ ~onWebsite("instagram")
    /\ alreadyFound(sProfiles, "facebook") /\ recordOf("facebook").confidence = 80
    /\ alreadyFound(sProfiles, "instagram") /\ recordOf("instagram").confidence = 75
    /\ sProbes["instagram"] = 1

(***************************************************************************)
(* Further claims about the scorer                                         *)
(***************************************************************************)
RECURSIVE signalSum(_)
signalSum(signals) ==
    IF signals = <<>> THEN 0 ELSE signals[1][2] + signalSum(Tail(signals))
notOperationalSignal(signal) == signal[1] # "operational"
operationalReason == "Currently operational (active business)"
statusOf(input) == Trim(OrElse(input.business_status, ""))
saysOperational(input) ==
    \/ Includes(statusOf(input), "OPERATIONAL")
    \/ Includes(statusOf(input), "Operational")
    \/ Includes(statusOf(input), "operational")

\* before is the total of the four signals evaluated before the status
discountApplied(out, recorded, before) ==
    /\ InSeq(<<"operational", -2>>, out.signals)
    /\ out.score = before - 2
    /\ InSeq(operationalReason, recorded) <=> before - 2 > 20
    /\ InSeq(operationalReason, out.reasons) <=> before - 2 > 20
noDiscount(out, recorded) ==
    /\ \A i \in 1..Len(out.signals) : out.signals[i][1] # "operational"
    /\ ~InSeq(operationalReason, recorded)
    /\ ~InSeq(operationalReason, out.reasons)
    /\ out.score = IF out.signals = closedOutput.signals THEN 0
                   ELSE signalSum(out.signals)

\* C26: an operating status containing "operational" subtracts 2 from the
\* running total, and the reason "Currently operational (active business)" is
\* recorded only if the total after the subtraction exceeds 20; for a status
\* not containing it neither the discount nor the reason is applied.
C26_OperationalDiscount ==
    apc \in {"done", "again"} =>
        IF saysOperational(Val(aInput))
        THEN discountApplied(Val(aOut), aReasons,
                 signalSum(SelectSeq(Val(aOut).signals, notOperationalSignal)))
        ELSE noDiscount(Val(aOut), aReasons)

\* an operational business whose total is 22 before the discount and 20 after
\* it: discounted, reason not recorded
C26_Witness ==
    /\ apc = "done" /\ saysOperational(Val(aInput))
    /\ Val(aOut).score = 20
    /\ ~InSeq(operationalReason, aReasons)
\* total 21 after the discount: reason recorded
C26_WitnessReason ==
    /\ apc = "done" /\ Val(aInput).business_status = Some("Operational")
    /\ Val(aOut).score = 21
    /\ InSeq(operationalReason, aReasons)
\* a status without the word
C26_WitnessOther ==
    /\ apc = "done" /\ Val(aInput).business_status = Some("CLOSED_TEMPORARILY")
    /\ Val(aOut).score = 69

(***************************************************************************)
(* Further claims about runPlacesSearch                                    *)
(***************************************************************************)
outcomeCounters == {"totalInserted", "totalSkippedSpam", "totalSkippedScore"}
counterOf(outcome) ==
    CASE outcome = "saved" -> "totalInserted"
      [] outcome = "skippedSpam" -> "totalSkippedSpam"
      [] outcome = "skippedScore" -> "totalSkippedScore"
\* the step that ends the candidate in progress: the loop goes to the next
\* one, to the end of the page or to the summary
candidateEnds ==
    /\ inProgress /\ rpc' # "thrown"
    /\ \/ rpc' \notin {"details", "emails", "social", "intelligence", "upsert"}
       \/ rLoop'.i # rLoop.i
onlyCounts(counter) ==
    /\ rTotals'[counter] = rTotals[counter] + 1
    /\ \A other \in outcomeCounters \ {counter} : rTotals'[other] = rTotals[other]
\* the end of a candidate counts it once, under its outcome; no other step
\* moves an outcome counter
countedOnce ==
    IF candidateEnds
    THEN /\ ~IsNull(rLast')
         /\ onlyCounts(counterOf(Val(rLast').outcome))
         /\ unfinished' = (IF rpc' = "details" THEN 1 ELSE 0)
    ELSE \A counter \in outcomeCounters : rTotals'[counter] = rTotals[counter]
\* between candidates and at the summary
betweenCandidates == rpc \in {"search", "delay", "reported"}

\* C27: after every fully processed candidate and at the final summary of a run
\* that completes normally, totalSeen = saved + skipped for spam + skipped for
\* score, and each candidate increments exactly one of the three counters.
C27_CountersAddUp ==
    /\ [](betweenCandidates => unfinished = 0)
    /\ [][countedOnce]_vars

\* a summary after candidates of two different outcomes
C27_Witness ==
    /\ rpc = "reported" /\ rTotals.totalSeen >= 2
    /\ rTotals.totalInserted >= 1 /\ rTotals.totalSkippedSpam >= 1
\* a summary that counts a candidate skipped for its score
C27_WitnessScore ==
    /\ rpc = "reported" /\ rTotals.totalSeen >= 2
    /\ rTotals.totalInserted >= 1 /\ rTotals.totalSkippedScore >= 1
\* the second candidate has just been counted as saved, the third is looked up
C27_WitnessNext ==
    /\ rpc = "details" /\ ended("saved") /\ rTotals.totalSeen = 3
    /\ rTotals.totalInserted + rTotals.totalSkippedSpam + rTotals.totalSkippedScore = 2

\* the input does not take the hard filter
notClosed(input) ==
    /\ ~Includes(statusOf(input), "CLOSED_PERMANENTLY")
    /\ ~Includes(statusOf(input), "closed_permanently")
fallbackReason == "Automation opportunity detected"
scoreIsSignalSum(out) ==
    /\ out.score = signalSum(out.signals)
    /\ out.score \in 1..69
    /\ Len(out.reasons) \in 2..5
    /\ ~InSeq(fallbackReason, out.reasons)

\* C28: for every input that is not permanently closed the returned score
\* equals the sum of the values in the returned signals map and lies in 1..69,
\* so the clamp to [0,100] changes nothing; the reasons list has between 2 and
\* 5 entries, so the fallback reason is never emitted.
C28_ScoreIsSignalSum ==
    (apc \in {"done", "again"} /\ notClosed(Val(aInput))) => scoreIsSignalSum(Val(aOut))

\* the lowest score: website, phone, more than 150 reviews, rating 4.6 or
\* more, operational: 2 + 1 - 2 = 1 with two reasons
C28_Witness ==
    /\ apc = "done" /\ notClosed(Val(aInput))
    /\ Val(aOut).score = 1 /\ Len(Val(aOut).reasons) = 2
    /\ InSeq(<<"operational", -2>>, Val(aOut).signals)
\* the highest score, and the longest reasons list
C28_WitnessHighest ==
    /\ apc = "done" /\ notClosed(Val(aInput))
    /\ Val(aOut).score = 69 /\ Len(Val(aOut).reasons) = 4
C28_WitnessFiveReasons ==
    /\ apc = "done" /\ notClosed(Val(aInput))
    /\ Val(aOut).score = 67 /\ Len(Val(aOut).reasons) = 5

(***************************************************************************)
(* The confidence of the returned addresses                                *)
(***************************************************************************)
confidenceInRange(r) ==
    \A i \in 1..Len(r.emails) :
        /\ r.emails[i] \in DOMAIN r.confidence
        /\ r.confidence[r.emails[i]] \in 60..95
\* what runPlacesSearch hands to upsertProspect as emails and primary_email
persistedFromHigh(r) ==
    /\ eHigh = r.emails
    /\ Len(eHigh) > 0 => eBest = Some(eHigh[1])
    /\ Len(eHigh) = 0 => eBest = Null

\* C29: every address in the emails list returned by discoverEmails has
\* confidence between 60 and 95, so getEmailsByConfidence(result, 60) returns
\* the whole list, and the primary email is the first element of the
\* high-confidence list when that list is not empty.
C29_ReturnedConfidenceInRange ==
    /\ epc \in {"done", "best"} => confidenceInRange(Val(eResult))
    /\ epc = "best" => persistedFromHigh(Val(eResult))

\* scraped and guessed addresses returned together, all of them kept by the
\* threshold, the best one with the highest confidence there is
C29_Witness ==
    /\ epc = "best" /\ Len(eHigh) > 3
    /\ Val(eResult).confidence[Val(eBest)] = 95
    /\ \E i \in 1..Len(eHigh) : Val(eResult).sources[eHigh[i]] = "pattern-common"
    /\ \E i \in 1..Len(eHigh) : Val(eResult).sources[eHigh[i]] = "scraped-html"
\* the lowest confidence of a returned address in the inputs checked
C29_WitnessLowest ==
    /\ epc = "best" /\ Len(eHigh) > 0
    /\ \E i \in 1..Len(eHigh) : Val(eResult).confidence[eHigh[i]] = 70
    /\ \A i \in 1..Len(eHigh) : Val(eResult).confidence[eHigh[i]] >= 70

(***************************************************************************)
(* The validation verdicts of discoverEmails                               *)
(***************************************************************************)
mxLookedUp == epc \in {"done", "best"} /\ ~IsNull(eHasMX)
atWebsiteDomain(email) == afterAt(email) = Val(extractEmailDomain(eWebsite))
\* the verdict of every candidate, from its format and the one lookup
verdictsFrom(r, hasMX) ==
    \A i \in 1..Len(eAll) :
        /\ eAll[i] \in DOMAIN r.validationResults
        /\ r.validationResults[eAll[i]] =
              (IF isValidEmailFormat(eAll[i]) /\ hasMX THEN "unknown" ELSE "invalid")
        /\ InSeq(eAll[i], r.emails) <=> (isValidEmailFormat(eAll[i]) /\ hasMX)
\* checkMXRecords is called once, with the website's domain: the lookup
\* settles in the one step from the await to the return
oneLookup ==
    eHasMX' # eHasMX => (epc = "awaitingMX" /\ epc' = "done" /\ IsNull(eHasMX))

\* C30: the verdict of every candidate address depends only on its format and
\* on the single MX lookup of the website's domain, never on the address's own
\* domain: without an MX record the emails list is empty even if addresses at
\* other domains were scraped, and with one every format-valid candidate,
\* a pattern guess at another domain included, is returned with 'unknown'.
C30_VerdictFromWebsiteDomainOnly ==
    /\ [](mxLookedUp =>
            /\ verdictsFrom(Val(eResult), Val(eHasMX))
            /\ ~Val(eHasMX) => Val(eResult).emails = <<>>)
    /\ [][oneLookup]_vars

\* no MX record for the website's domain: nothing returned, although an
\* address at another domain was scraped
C30_Witness ==
    /\ mxLookedUp /\ ~Val(eHasMX) /\ Val(eResult).emails = <<>>
    /\ \E i \in 1..Len(eAll) :
          /\ isValidEmailFormat(eAll[i]) /\ ~atWebsiteDomain(eAll[i])
          /\ eSources[eAll[i]] = "scraped-html"
          /\ Val(eResult).validationResults[eAll[i]] = "invalid"
\* an MX record: the guess at the name's .com domain is returned as 'unknown'
C30_WitnessGuessElsewhere ==
    /\ mxLookedUp /\ Val(eHasMX) /\ eWebsite = "https://other.org"
    /\ InSeq("contact@acme.com", Val(eResult).emails)
    /\ Val(eResult).sources["contact@acme.com"] = "pattern-common"
    /\ Val(eResult).validationResults["contact@acme.com"] = "unknown"
\* a candidate of invalid format is kept back whatever the lookup says
C30_WitnessFormat ==
    /\ mxLookedUp /\ Val(eHasMX)
    /\ \E i \in 1..Len(eAll) :
          /\ ~isValidEmailFormat(eAll[i])
          /\ Val(eResult).validationResults[eAll[i]] = "invalid"

====
